---- MODULE Spec2Model ----
(***************************************************************************)
(* A model of the Egyptian national-id validation service: the identity    *)
(* code parser (validator/helper.py), the API-key authenticator            *)
(* (validator/authentication.py), the two rate throttles                   *)
(* (validator/throttling.py) and the request handler (validator/views.py). *)
(*                                                                         *)
(* Python strings are sequences of Unicode code points, so that slicing,   *)
(* strip(), translate(), isdigit() and int() are computed as Python        *)
(* computes them.                                                          *)
(***************************************************************************)
EXTENDS Integers, Sequences, FiniteSets, TLC

VARIABLES
    national_id,      \* the text handed to validate_and_parse
    strict_checksum,  \* its strict_checksum argument
    today,            \* date.today(), as <<year, month, day>>
    result,           \* what validate_and_parse did: NotRun, a return or a raise
    edits,            \* how many characters of the base text were replaced
    db,               \* the api_keys table: a sequence of APIKey rows, by id
    auth_cache,       \* the cache entries api_key_<secret>
    throttle_cache,   \* the cache entries throttle_<scope>_<ident>
    now,              \* the clock, in seconds
    pc,               \* where the request in flight stands
    header,           \* its X-API-Key header, as received
    user,             \* request.user: None, or the APIUser's api_key
    queried,          \* whether get_api_key_data queried the api_keys table
    held,             \* what cache.get found for the secret, if it ran
    body,             \* request.data
    pending,          \* the status and body the handler has settled on so far
    response,         \* the response sent
    dispatches,       \* the log_validation_task.delay calls of this request
    delay_calls,      \* all log_validation_task.delay calls so far
    handler_calls,    \* all calls of ValidateIDView.post so far
    throttled,        \* what the throttles decided, request by request
    requests,         \* requests received so far
    ticks,            \* clock steps taken so far
    workers,          \* the server processes inside a throttle check, each with
                      \* the throttle's own self.history and self.now
    quota_changes,    \* when an operator changed the quotas of which key
    issuing,          \* the POST /api-keys in flight between its two writes
    audit             \* the Celery worker: the log_validation_task messages it
                      \* holds, and the id_validation_log table

pvars == <<national_id, strict_checksum, today, result, edits>>
svars == <<db, auth_cache, throttle_cache, now, pc, header, user, queried, held,
           body, pending, response, dispatches, delay_calls, handler_calls,
           throttled, requests, ticks, workers, quota_changes, issuing,
           audit>>
vars == <<pvars, svars>>

-----------------------------------------------------------------------------
(* Bounds of the model.                                                    *)

\* At most this many characters of a base text are replaced by another one.
MaxEdits == 1
\* At most this many API keys are issued.
MaxKeys == 2
\* At most this many requests are sent to the validate endpoint.
MaxRequests == 3
\* At most this many times the clock advances.
MaxTicks == 2
\* This many server processes answer requests at the same time.
MaxWorkers == 2
\* At most this many times an operator changes the quotas of a key.
MaxChanges == 1
\* The worker is followed for at most this many runs of one task.
MaxRuns == 5

-----------------------------------------------------------------------------
(* Characters.                                                             *)

ASCII_ZERO == 48
ARABIC_ZERO == 1632
\* U+06F0, EXTENDED ARABIC-INDIC DIGIT ZERO: category Nd, not translated.
PERSIAN_ZERO == 1776
\* U+00B2, SUPERSCRIPT TWO: str.isdigit() is true, int() raises ValueError.
SUPERSCRIPT_TWO == 178
LETTER_A == 65
SPACE == 32

AsciiDigits == ASCII_ZERO .. (ASCII_ZERO + 9)
ArabicDigits == ARABIC_ZERO .. (ARABIC_ZERO + 9)
PersianDigits == PERSIAN_ZERO .. (PERSIAN_ZERO + 9)

\* The characters c with c.isdigit(), among those the model draws.
IsDigitChars == AsciiDigits \cup ArabicDigits \cup PersianDigits \cup {SUPERSCRIPT_TWO}

\* The characters int() reads as a decimal digit (category Nd).
DecimalChars == AsciiDigits \cup ArabicDigits \cup PersianDigits

DecimalValue(c) ==
    IF c \in AsciiDigits THEN c - ASCII_ZERO
    ELSE IF c \in ArabicDigits THEN c - ARABIC_ZERO
    ELSE c - PERSIAN_ZERO

\* The text of a sequence of digits 0..9, in ASCII.
Ascii(ds) == [i \in 1 .. Len(ds) |-> ASCII_ZERO + ds[i]]

-----------------------------------------------------------------------------
(* Python's str and int operations.                                        *)

RECURSIVE lstrip(_)
lstrip(s) == IF Len(s) > 0 /\ s[1] = SPACE THEN lstrip(Tail(s)) ELSE s

RECURSIVE rstrip(_)
rstrip(s) ==
    IF Len(s) > 0 /\ s[Len(s)] = SPACE THEN rstrip(SubSeq(s, 1, Len(s) - 1)) ELSE s

strip(s) == rstrip(lstrip(s))

isdigit(s) == Len(s) > 0 /\ \A i \in 1 .. Len(s) : s[i] \in IsDigitChars

\* int(s) raises ValueError unless every character is a decimal digit.
int_raises(s) == Len(s) = 0 \/ \E i \in 1 .. Len(s) : s[i] \notin DecimalChars

RECURSIVE int(_)
int(s) ==
    IF Len(s) = 0 THEN 0
    ELSE 10 * int(SubSeq(s, 1, Len(s) - 1)) + DecimalValue(s[Len(s)])

\* s[a:b] of Python, 0-based and end-exclusive.
Slice(s, a, b) == SubSeq(s, a + 1, IF b < Len(s) THEN b ELSE Len(s))

-----------------------------------------------------------------------------
(* enums.py                                                                *)

ERR_INVALID_LENGTH == "invalid_length"
ERR_INVALID_CHARACTERS == "invalid_characters"
ERR_UNKNOWN_CENTURY == "unknown_century"
ERR_INVALID_MONTH == "invalid_month"
ERR_INVALID_DAY == "invalid_day"
ERR_INVALID_DATE == "invalid_date"
ERR_FUTURE_DATE == "future_date"
ERR_UNKNOWN_GOVERNORATE == "unknown_governorate"
ERR_INVALID_CHECKSUM == "invalid_checksum"

Code(a, b) == Ascii(<<a, b>>)

GOVERNORATES ==
    (Code(0, 1) :> "Cairo") @@ (Code(0, 2) :> "Alexandria") @@
    (Code(0, 3) :> "Port Said") @@ (Code(0, 4) :> "Suez") @@
    (Code(1, 1) :> "Damietta") @@ (Code(1, 2) :> "Dakahlia") @@
    (Code(1, 3) :> "Sharqia") @@ (Code(1, 4) :> "Qalyubia") @@
    (Code(1, 5) :> "Kafr El Sheikh") @@ (Code(1, 6) :> "Gharbia") @@
    (Code(1, 7) :> "Monufia") @@ (Code(1, 8) :> "Beheira") @@
    (Code(1, 9) :> "Ismailia") @@
    (Code(2, 1) :> "Giza") @@ (Code(2, 2) :> "Beni Suef") @@
    (Code(2, 3) :> "Fayoum") @@ (Code(2, 4) :> "Minya") @@
    (Code(2, 5) :> "Asyut") @@ (Code(2, 6) :> "Sohag") @@
    (Code(2, 7) :> "Qena") @@ (Code(2, 8) :> "Aswan") @@
    (Code(2, 9) :> "Luxor") @@
    (Code(3, 1) :> "Red Sea") @@ (Code(3, 2) :> "New Valley") @@
    (Code(3, 3) :> "Matrouh") @@ (Code(3, 4) :> "North Sinai") @@
    (Code(3, 5) :> "South Sinai") @@
    (Code(8, 8) :> "Foreigner")

CENTURY_MAP == (Ascii(<<2>>) :> 1900) @@ (Ascii(<<3>>) :> 2000)

-----------------------------------------------------------------------------
(* datetime.date                                                           *)

IsLeap(y) == (y % 4 = 0 /\ y % 100 # 0) \/ y % 400 = 0

DaysInMonth(y, m) ==
    IF m = 2 THEN (IF IsLeap(y) THEN 29 ELSE 28)
    ELSE IF m \in {4, 6, 9, 11} THEN 30
    ELSE 31

\* date(y, m, d) raises ValueError unless the day exists.
date_raises(y, m, d) == ~(m \in 1 .. 12 /\ d \in 1 .. DaysInMonth(y, m))

\* d1 >= d2 in the place of d1 > d2.
DateAfter_or_equal(d1, d2) ==
    \/ d1[1] > d2[1]
    \/ d1[1] = d2[1] /\ d1[2] > d2[2]
    \/ d1[1] = d2[1] /\ d1[2] = d2[2] /\ d1[3] >= d2[3]

\* d1 > d2 on dates <<year, month, day>>.
DateAfter(d1, d2) ==
    \/ d1[1] > d2[1]
    \/ d1[1] = d2[1] /\ d1[2] > d2[2]
    \/ d1[1] = d2[1] /\ d1[2] = d2[2] /\ d1[3] > d2[3]

\* n written with w decimal digits.
ZeroPad(n, w) == [i \in 1 .. w |-> ASCII_ZERO + ((n \div (10 ^ (w - i))) % 10)]

HYPHEN == 45

\* isoformat writing month and day without the leading zero.
isoformat_unpadded(d) == ZeroPad(d[1], 4) \o <<HYPHEN>> \o ZeroPad(d[2], IF d[2] < 10 THEN 1 ELSE 2) \o <<HYPHEN>> \o ZeroPad(d[3], IF d[3] < 10 THEN 1 ELSE 2)

\* date.isoformat(): YYYY-MM-DD.
isoformat(d) == ZeroPad(d[1], 4) \o <<HYPHEN>> \o ZeroPad(d[2], 2) \o <<HYPHEN>> \o ZeroPad(d[3], 2)

-----------------------------------------------------------------------------
(* helper.py: EgyptianIDValidator                                          *)

\* Python's None.
None == [none |-> TRUE]

arabic_digits == [k \in 1 .. 10 |-> ARABIC_ZERO + k - 1]
ascii_digits == [k \in 1 .. 10 |-> ASCII_ZERO + k - 1]

\* A translation table that maps nothing.
translate_nothing(c) == c

\* str.maketrans(arabic_digits, ascii_digits), applied to one character.
translate(c) ==
    IF \E k \in 1 .. 10 : arabic_digits[k] = c
    THEN ascii_digits[CHOOSE k \in 1 .. 10 : arabic_digits[k] = c]
    ELSE c

_normalize_digits(text) == [i \in 1 .. Len(text) |-> translate(text[i])]

\* _validate_format testing the characters before the length.
_validate_format_characters_first(nid) ==
    LET normalized == _normalize_digits(nid) IN
    IF Len(normalized) = 0 \/ ~isdigit(normalized)
    THEN [ok |-> FALSE, value |-> <<>>, errors |-> <<ERR_INVALID_CHARACTERS>>]
    ELSE IF Len(nid) # 14
    THEN [ok |-> FALSE, value |-> <<>>, errors |-> <<ERR_INVALID_LENGTH>>]
    ELSE [ok |-> TRUE, value |-> normalized, errors |-> <<>>]

\* [ok, value, errors]: the normalized text, or False with the error appended.
_validate_format(nid) ==
    IF Len(nid) # 14
    THEN [ok |-> FALSE, value |-> <<>>, errors |-> <<ERR_INVALID_LENGTH>>]
    ELSE LET normalized == _normalize_digits(nid) IN
         IF Len(normalized) = 0 \/ ~isdigit(normalized) \/ Len(normalized) # 14
         THEN [ok |-> FALSE, value |-> <<>>, errors |-> <<ERR_INVALID_CHARACTERS>>]
         ELSE [ok |-> TRUE, value |-> normalized, errors |-> <<>>]

_validate_century(century_digit) == century_digit \in DOMAIN CENTURY_MAP

\* [ok, date, errors]: the birth date, or None with one error appended.
_validate_date(century_digit, year_short, month, day, clock_date) ==
    IF int_raises(year_short) \/ int_raises(month) \/ int_raises(day)
    THEN [ok |-> FALSE, date |-> <<>>, errors |-> <<ERR_INVALID_DATE>>]
    ELSE LET full_year == CENTURY_MAP[century_digit] + int(year_short)
             month_int == int(month)
             day_int == int(day)
         IN  IF month_int < 1 \/ month_int > 12
             THEN [ok |-> FALSE, date |-> <<>>, errors |-> <<ERR_INVALID_MONTH>>]
             ELSE IF day_int < 1 \/ day_int > 31
             THEN [ok |-> FALSE, date |-> <<>>, errors |-> <<ERR_INVALID_DAY>>]
             ELSE IF date_raises(full_year, month_int, day_int)
             THEN [ok |-> FALSE, date |-> <<>>, errors |-> <<ERR_INVALID_DATE>>]
             ELSE IF DateAfter(<<full_year, month_int, day_int>>, clock_date)
             THEN [ok |-> FALSE, date |-> <<>>, errors |-> <<ERR_FUTURE_DATE>>]
             ELSE [ok |-> TRUE, date |-> <<full_year, month_int, day_int>>,
                   errors |-> <<>>]

\* [name, errors]
_validate_governorate(governorate_code) ==
    LET governorate_name ==
            IF governorate_code \in DOMAIN GOVERNORATES
            THEN GOVERNORATES[governorate_code] ELSE "Unknown"
    IN  [name |-> governorate_name,
         errors |-> IF governorate_name = "Unknown"
                    THEN <<ERR_UNKNOWN_GOVERNORATE>> ELSE <<>>]

weights == <<2, 7, 6, 5, 4, 3, 2, 7, 6, 5, 4, 3, 2>>

\* total after the first n rounds of the loop over range(13).
RECURSIVE WeightedSum(_, _)
WeightedSum(nid, n) ==
    IF n = 0 THEN 0 ELSE WeightedSum(nid, n - 1) + int(<<nid[n]>>) * weights[n]

\* _validate_checksum with both reductions modulo 10.
_validate_checksum_mod_10(nid) ==
    IF Len(nid) < 14 \/ \E i \in 1 .. 14 : int_raises(<<nid[i]>>)
    THEN FALSE
    ELSE LET total == WeightedSum(nid, 13)
             remainder == total % 10
             check_digit == (10 - remainder) % 10
         IN  check_digit = int(<<nid[14]>>)

\* _validate_checksum reducing the check digit modulo 11 instead of 10.
_validate_checksum_mod_11(nid) ==
    IF Len(nid) < 14 \/ \E i \in 1 .. 14 : int_raises(<<nid[i]>>)
    THEN FALSE
    ELSE LET total == WeightedSum(nid, 13)
             remainder == total % 11
             check_digit == (11 - remainder) % 11
         IN  check_digit = int(<<nid[14]>>)

_validate_checksum(nid) ==
    IF Len(nid) < 14 \/ \E i \in 1 .. 14 : int_raises(<<nid[i]>>)
    THEN FALSE
    ELSE LET total == WeightedSum(nid, 13)
             remainder == total % 11
             check_digit == (11 - remainder) % 10
         IN  check_digit = int(<<nid[14]>>)

\* _calculate_age without the birthday adjustment.
_calculate_age_by_year(birth_date, clock_date) == clock_date[1] - birth_date[1]

_calculate_age(birth_date, clock_date) ==
    LET age == clock_date[1] - birth_date[1] IN
    IF \/ clock_date[2] < birth_date[2]
       \/ clock_date[2] = birth_date[2] /\ clock_date[3] < birth_date[3]
    THEN age - 1 ELSE age

Returns(valid, errors, parsed) ==
    [kind |-> "return", valid |-> valid, errors |-> errors, parsed |-> parsed]

\* A ValueError leaves validate_and_parse.
Raises == [kind |-> "raise", valid |-> FALSE, errors |-> <<>>, parsed |-> None]

\* checksum_errors without the test of strict_checksum.
checksum_errors_in_any_mode(strict, checksum_ok) ==
    IF ~checksum_ok THEN <<ERR_INVALID_CHECKSUM>> ELSE <<>>

\* Lines 49-54: the checksum is always computed, and is an error in strict mode.
checksum_errors(strict, checksum_ok) ==
    IF strict /\ ~checksum_ok THEN <<ERR_INVALID_CHECKSUM>> ELSE <<>>

\* build_result with the parsed data attached to an invalid result too.
build_result_keeps_parsed(errors, nid, birth_date, governorate_name, checksum_ok, clock_date) ==
    LET serial == Slice(nid, 9, 13) IN
    IF int_raises(<<serial[Len(serial)]>>) THEN Raises
    ELSE
    Returns(errors = <<>>, errors,
            [raw |-> nid,
             century_digit |-> Slice(nid, 0, 1),
             birth_date |-> isoformat(birth_date),
             age |-> _calculate_age(birth_date, clock_date),
             governorate_code |-> Slice(nid, 7, 9),
             governorate_name |-> governorate_name,
             serial |-> serial,
             gender |-> IF int(<<serial[Len(serial)]>>) % 2 = 1
                        THEN "male" ELSE "female",
             checksum_ok |-> checksum_ok])

\* Lines 56-79: invalid if any error was appended, else the parsed data.
build_result(errors, nid, birth_date, governorate_name, checksum_ok, clock_date) ==
    LET serial == Slice(nid, 9, 13) IN
    IF errors # <<>> THEN Returns(FALSE, errors, None)
    ELSE IF int_raises(<<serial[Len(serial)]>>) THEN Raises
    ELSE
    Returns(TRUE, errors,
            [raw |-> nid,
             century_digit |-> Slice(nid, 0, 1),
             birth_date |-> isoformat(birth_date),
             age |-> _calculate_age(birth_date, clock_date),
             governorate_code |-> Slice(nid, 7, 9),
             governorate_name |-> governorate_name,
             serial |-> serial,
             gender |-> IF int(<<serial[Len(serial)]>>) % 2 = 1
                        THEN "male" ELSE "female",
             checksum_ok |-> checksum_ok])

\* validate_and_parse returning as soon as the governorate is unknown.
validate_and_parse_stops_at_governorate(raw_id, strict, clock_date) ==
    LET fmt == _validate_format(strip(raw_id)) IN
    IF ~fmt.ok THEN Returns(FALSE, fmt.errors, None)
    ELSE
    LET nid == fmt.value
        century_digit == Slice(nid, 0, 1)
    IN
    IF ~_validate_century(century_digit)
    THEN Returns(FALSE, <<ERR_UNKNOWN_CENTURY>>, None)
    ELSE
    LET bd == _validate_date(century_digit, Slice(nid, 1, 3), Slice(nid, 3, 5),
                             Slice(nid, 5, 7), clock_date)
    IN
    IF ~bd.ok THEN Returns(FALSE, bd.errors, None)
    ELSE
    LET gov == _validate_governorate(Slice(nid, 7, 9))
        checksum_ok == _validate_checksum(nid)
    IN
    IF gov.errors # <<>> THEN Returns(FALSE, gov.errors, None)
    ELSE build_result(checksum_errors(strict, checksum_ok), nid, bd.date, gov.name,
                      checksum_ok, clock_date)

validate_and_parse(raw_id, strict, clock_date) ==
    LET fmt == _validate_format(strip(raw_id)) IN
    IF ~fmt.ok THEN Returns(FALSE, fmt.errors, None)
    ELSE
    LET nid == fmt.value
        century_digit == Slice(nid, 0, 1)
        year_short == Slice(nid, 1, 3)
        month == Slice(nid, 3, 5)
        day == Slice(nid, 5, 7)
        governorate_code == Slice(nid, 7, 9)
        serial == Slice(nid, 9, 13)
    IN
    IF ~_validate_century(century_digit)
    THEN Returns(FALSE, <<ERR_UNKNOWN_CENTURY>>, None)
    ELSE
    LET bd == _validate_date(century_digit, year_short, month, day, clock_date) IN
    IF ~bd.ok THEN Returns(FALSE, bd.errors, None)
    ELSE
    LET gov == _validate_governorate(governorate_code)
        checksum_ok == _validate_checksum(nid)
        errors == gov.errors \o checksum_errors(strict, checksum_ok)
    IN
    build_result(errors, nid, bd.date, gov.name, checksum_ok, clock_date)

-----------------------------------------------------------------------------
(* The shared cache (django.core.cache): a set of entries, each gone once  *)
(* its time to live has passed.                                            *)

cache_has(c, k, t) == \E e \in c : e.key = k /\ e.expires > t

cache_value(c, k, t) == (CHOOSE e \in c : e.key = k /\ e.expires > t).value

cache_set(c, k, v, timeout, t) ==
    {e \in c : e.key # k} \cup {[key |-> k, value |-> v, expires |-> t + timeout]}

\* What the cache server still holds at time t.
unexpired(c, t) == {e \in c : e.expires > t}

-----------------------------------------------------------------------------
(* models.py: APIKey                                                       *)

\* django.contrib.auth.hashers: the hash is no text one could compare with.
make_password(raw_key) == [algorithm |-> "pbkdf2_sha256", digest_of |-> raw_key]

check_password(raw_key, hashed_key) == hashed_key = make_password(raw_key)

check_key(api_key_obj, raw_key) == check_password(raw_key, api_key_obj.hashed_key)

\* new_api_key with the whole secret as prefix_key.
new_api_key_whole_prefix(id, key_value, per_minute, per_day) == [id |-> id, hashed_key |-> make_password(key_value), prefix_key |-> key_value, revoked |-> FALSE, quota_requests_per_minute |-> per_minute, quota_requests_per_day |-> per_day]

\* serializers.py, APIKeyCreateSerializer.create: the row as saved.
new_api_key(id, key_value, per_minute, per_day) ==
    [id |-> id,
     hashed_key |-> make_password(key_value),
     prefix_key |-> Slice(key_value, 0, 8),
     revoked |-> FALSE,
     quota_requests_per_minute |-> per_minute,
     quota_requests_per_day |-> per_day]

\* hashed_key and prefix_key of the row APIKey.objects.create(**validated_data)
\* inserts, before set_key: the defaults of the two CharFields.
UNSET_HASH == [algorithm |-> "", digest_of |-> <<>>]
UNSET_PREFIX == <<>>

\* The instance the query loads: revoked is one of the deferred fields.
loaded(row) ==
    [id |-> row.id,
     hashed_key |-> row.hashed_key,
     prefix_key |-> row.prefix_key,
     quota_requests_per_minute |-> row.quota_requests_per_minute,
     quota_requests_per_day |-> row.quota_requests_per_day]

-----------------------------------------------------------------------------
(* authentication.py: APIKeyAuthentication                                 *)

POSITIVE_TTL == 300
NEGATIVE_TTL == 60

\* get_api_key without strip().
get_api_key_as_received(raw_header) == raw_header

get_api_key(raw_header) == strip(raw_header)

\* The query without its revoked=False filter.
active_keys_with_revoked(rows, api_key_value) ==
    {i \in 1 .. Len(rows) : rows[i].prefix_key = Slice(api_key_value, 0, 8)}

\* APIKey.objects.filter(revoked=False, prefix_key=api_key_value[:8])
active_keys(rows, api_key_value) ==
    {i \in 1 .. Len(rows) :
        ~rows[i].revoked /\ rows[i].prefix_key = Slice(api_key_value, 0, 8)}

\* The candidates check_key accepts. The query states no order, so which of
\* several the loop meets first is the database's choice.
verified_keys(rows, api_key_value) ==
    {i \in active_keys(rows, api_key_value) : check_key(rows[i], api_key_value)}

\* cached_key_data looking the entry up by the first 8 characters of the secret.
cached_key_data_by_prefix(c, api_key_value, t) == IF \E e \in c : Slice(e.key, 0, 8) = Slice(api_key_value, 0, 8) /\ e.expires > t /\ e.value # None THEN (CHOOSE e \in c : Slice(e.key, 0, 8) = Slice(api_key_value, 0, 8) /\ e.expires > t /\ e.value # None).value ELSE None

\* cache.get(cache_key): None for no entry and for a stored None alike.
cached_key_data(c, api_key_value, t) ==
    IF cache_has(c, api_key_value, t) THEN cache_value(c, api_key_value, t) ELSE None

\* What the cache server holds under the secret: nothing, a stored None, or a
\* stored key.
cache_entry_kind(c, api_key_value, t) ==
    IF ~cache_has(c, api_key_value, t) THEN "absent"
    ELSE IF cache_value(c, api_key_value, t) = None THEN "tombstone"
    ELSE "key"

\* What the lookup stores after a miss, for the row it returns (0: none).
cache_after_lookup(c, api_key_value, rows, i, t) ==
    IF i # 0
    THEN cache_set(c, api_key_value, loaded(rows[i]), POSITIVE_TTL, t)
    ELSE cache_set(c, api_key_value, None, NEGATIVE_TTL, t)

-----------------------------------------------------------------------------
(* throttling.py, over rest_framework.throttling.SimpleRateThrottle        *)

MINUTE == 60
DAY == 86400

SCOPE_MINUTE == "api_key"
SCOPE_DAILY == "api_key_daily"

\* The rates for a request without an API key.
DEFAULT_PER_MINUTE == 2
DEFAULT_PER_DAY == 100

\* The address SimpleRateThrottle.get_ident falls back to: '127.0.0.1'.
REMOTE_ADDR == <<49, 50, 55, 46, 48, 46, 48, 46, 49>>

\* if api_key_value: the header as received, when it is set.
has_header(raw_header) == raw_header # <<>>

\* The ident of get_cache_key: the header, or else the client's address.
throttle_ident(raw_header) ==
    IF has_header(raw_header) THEN raw_header ELSE REMOTE_ADDR

\* get_cache_key: the header as received is the identity.
get_cache_key(scope, raw_header) == <<scope, throttle_ident(raw_header)>>

\* hasattr(request.user, 'api_key')
has_api_key(request_user) == request_user # None

\* _get_custom_rate of APIKeyRateThrottle and of DailyAPIKeyThrottle: the
\* number of requests of the rate.
_get_custom_rate(scope, request_user) ==
    IF scope = SCOPE_MINUTE
    THEN IF has_api_key(request_user)
         THEN request_user.quota_requests_per_minute ELSE DEFAULT_PER_MINUTE
    ELSE IF has_api_key(request_user)
         THEN request_user.quota_requests_per_day ELSE DEFAULT_PER_DAY

\* while self.history and self.history[-1] <= self.now - self.duration: pop()
RECURSIVE drop_old(_, _)
drop_old(history, limit) ==
    IF Len(history) > 0 /\ history[Len(history)] <= limit
    THEN drop_old(SubSeq(history, 1, Len(history) - 1), limit)
    ELSE history

\* SimpleRateThrottle.wait: the seconds until the oldest request of the
\* history leaves it, as a set: empty where wait() returns None.
wait(history, num_requests, duration, t) ==
    LET remaining_duration == IF Len(history) > 0
                              THEN duration - (t - history[Len(history)])
                              ELSE duration
        available_requests == num_requests - Len(history) + 1
    IN  IF available_requests <= 0 THEN {}
        ELSE {remaining_duration \div available_requests}

\* allow_request: [allowed, cache, wait]
allow_request(c, scope, raw_header, num_requests, duration, t) ==
    LET key == get_cache_key(scope, raw_header)
        stored == IF cache_has(c, key, t) THEN cache_value(c, key, t) ELSE <<>>
        history == drop_old(stored, t - duration)
    IN  IF Len(history) >= num_requests
        THEN [allowed |-> FALSE, cache |-> c,
              wait |-> wait(history, num_requests, duration, t)]
        ELSE [allowed |-> TRUE,
              cache |-> cache_set(c, key, <<t>> \o history, duration, t),
              wait |-> {}]

\* check_throttles admitting the request that either throttle allows.
check_throttles_either(c, raw_header, api_key, t) ==
    LET minute == allow_request(c, SCOPE_MINUTE, raw_header, _get_custom_rate(SCOPE_MINUTE, api_key), MINUTE, t)
        daily == allow_request(minute.cache, SCOPE_DAILY, raw_header, _get_custom_rate(SCOPE_DAILY, api_key), DAY, t)
        waits == minute.wait \cup daily.wait
    IN  [allowed |-> minute.allowed \/ daily.allowed,
         minute |-> minute.allowed, daily |-> daily.allowed,
         wait |-> IF waits = {} THEN None
                  ELSE [seconds |-> CHOOSE w \in waits : \A v \in waits : v <= w],
         cache |-> daily.cache]

\* APIView.check_throttles: every throttle of throttle_classes is asked, and
\* the longest wait of those that refuse goes into the Throttled exception.
check_throttles(c, raw_header, api_key, t) ==
    LET minute == allow_request(c, SCOPE_MINUTE, raw_header,
                                _get_custom_rate(SCOPE_MINUTE, api_key), MINUTE, t)
        daily == allow_request(minute.cache, SCOPE_DAILY, raw_header,
                               _get_custom_rate(SCOPE_DAILY, api_key), DAY, t)
        waits == minute.wait \cup daily.wait
    IN  [allowed |-> minute.allowed /\ daily.allowed,
         minute |-> minute.allowed, daily |-> daily.allowed,
         wait |-> IF waits = {} THEN None
                  ELSE [seconds |-> CHOOSE w \in waits : \A v \in waits : v <= w],
         cache |-> daily.cache]

-----------------------------------------------------------------------------
(* views.py: ValidateIDView                                                *)

HTTP_200_OK == 200
HTTP_400_BAD_REQUEST == 400
HTTP_403_FORBIDDEN == 403
HTTP_429_TOO_MANY_REQUESTS == 429
HTTP_500_INTERNAL_SERVER_ERROR == 500

ASTERISK == 42
MASK == <<ASTERISK, ASTERISK, ASTERISK, ASTERISK>>

NoResponse == [status |-> 0, data |-> None]

response_data(valid, errors, parsed) ==
    [valid |-> valid, errors |-> errors, parsed |-> parsed]

\* The body the exception handler renders for a detail that is a text.
detail(text) == [detail |-> text]

\* The body it renders for Throttled(wait): the detail names the seconds to
\* wait, which are the Retry-After header too.
throttled_detail(seconds) == [detail |-> "Request was throttled.", wait |-> seconds]

\* The body it renders for a detail that is a list: the list itself.
detail_list(texts) == [list |-> texts]

\* ValidateIDRequestSerializer(data=request.data).is_valid()
request_is_valid(data) ==
    /\ data.kind = "object"
    /\ data.has_national_id
    /\ strip(data.national_id) # <<>>

\* serializer.errors.keys(), joined
request_error_fields(data) ==
    IF data.kind # "object" THEN "non_field_errors" ELSE "national_id"

\* ValidateIDResponseSerializer(data=response_data).is_valid()
response_is_valid(data) ==
    /\ data.valid \in BOOLEAN
    /\ \A i \in 1 .. Len(data.errors) : data.errors[i] # ""
    /\ \/ data.parsed = None
       \/ /\ strip(data.parsed.raw) # <<>>
          /\ strip(data.parsed.century_digit) # <<>>
          /\ strip(data.parsed.governorate_code) # <<>>
          /\ strip(data.parsed.serial) # <<>>
          /\ data.parsed.governorate_name # ""
          /\ data.parsed.checksum_ok \in BOOLEAN

\* _get_api_key_id not finding the key on request.user.
_get_api_key_id_anonymous(request_user) == 0

\* _get_api_key_id
_get_api_key_id(request_user) == IF request_user = None THEN 0 ELSE request_user.id

\* The national_id _log_validation_async writes to the audit record.
logged_national_id(nid, is_valid) ==
    IF is_valid THEN Slice(nid, 0, 8) \o MASK ELSE nid

\* One log_validation_task.delay call: the audit record it asks for, with
\* request_data["national_id"] and response_data.
delay(api_key_id, status_code, nid, response_log_data, enqueued) ==
    [api_key_id |-> api_key_id, status_code |-> status_code,
     national_id |-> nid, response_data |-> response_log_data, enqueued |-> enqueued]

\* The status of the response for a parser result (lines 93-95).
status_number(errors) ==
    IF errors # <<>> THEN HTTP_400_BAD_REQUEST ELSE HTTP_200_OK

-----------------------------------------------------------------------------
(* What the model draws.                                                   *)

LETTER_a == 97
LETTER_b == 98

KEY_A == [i \in 1 .. 9 |-> IF i < 9 THEN LETTER_A ELSE LETTER_a]
\* The same first 8 characters as KEY_A.
KEY_B == [i \in 1 .. 9 |-> IF i < 9 THEN LETTER_A ELSE LETTER_b]

\* A secret of fewer than 8 characters, chosen by the caller.
SHORT_KEY == <<LETTER_A, LETTER_b>>

\* KEY_A as a client may send it: strip() gives KEY_A.
PADDED_KEY_A == <<SPACE>> \o KEY_A

VALID_ID == Ascii(<<3,0,1,0,3,2,7,1,7,0,1,3,1,2>>)
INVALID_CHECKSUM_ID == Ascii(<<2,9,0,0,1,0,1,2,1,0,0,0,1,7>>)
INVALID_LENGTH_ID == Ascii(<<1,2,3,4,5>>)
ARABIC_DIGITS_ID == [i \in 1 .. 14 |-> ARABIC_ZERO + (VALID_ID[i] - ASCII_ZERO)]
\* isdigit() accepts it, int() of its last serial character raises.
SUPERSCRIPT_ID == [VALID_ID EXCEPT ![13] = SUPERSCRIPT_TWO]

json_object(nid, strict) ==
    [kind |-> "object", has_national_id |-> TRUE, national_id |-> nid,
     strict_checksum |-> strict]

NoBody == [kind |-> "none", has_national_id |-> FALSE, national_id |-> <<>>,
           strict_checksum |-> FALSE]

Bodies ==
    { json_object(VALID_ID, FALSE),
      json_object(INVALID_CHECKSUM_ID, FALSE),
      json_object(INVALID_CHECKSUM_ID, TRUE),
      json_object(INVALID_LENGTH_ID, FALSE),
      json_object(SUPERSCRIPT_ID, FALSE),
      [kind |-> "object", has_national_id |-> FALSE, national_id |-> <<>>,
       strict_checksum |-> FALSE],
      [kind |-> "list", has_national_id |-> FALSE, national_id |-> <<>>,
       strict_checksum |-> FALSE] }

NotRun == [kind |-> "none", valid |-> FALSE, errors |-> <<>>, parsed |-> None]

SERVICE_DATE == <<2026, 11, 2>>

-----------------------------------------------------------------------------
(* The service: keys are issued and revoked, the clock advances, and       *)
(* requests are handled one at a time.                                     *)

\* Nothing issued, nothing cached, no request in flight.
\* A server process that is not inside a throttle check.
IdleWorker ==
    [stage |-> "idle", header |-> <<>>, user |-> None, history |-> <<>>, now |-> 0,
     minute |-> FALSE, daily |-> FALSE]

ServiceIdle ==
    /\ db = <<>>
    /\ auth_cache = {}
    /\ throttle_cache = {}
    /\ now = 0
    /\ pc = "idle"
    /\ header = <<>>
    /\ user = None
    /\ queried = FALSE
    /\ held = "unread"
    /\ body = NoBody
    /\ pending = NoResponse
    /\ response = NoResponse
    /\ dispatches = <<>>
    /\ delay_calls = 0
    /\ handler_calls = 0
    /\ throttled = <<>>
    /\ requests = 0
    /\ ticks = 0
    /\ workers = [w \in 1 .. MaxWorkers |-> IdleWorker]
    /\ quota_changes = <<>>
    /\ issuing = None
    /\ audit = [tasks |-> <<>>, log |-> <<>>]

Init ==
    /\ national_id = <<>>
    /\ strict_checksum = FALSE
    /\ today = SERVICE_DATE
    /\ result = NotRun
    /\ edits = 0
    /\ ServiceIdle

request_vars == <<national_id, strict_checksum, result, header, user, queried, held,
                  body, pending,
                  response, dispatches>>
store_vars == <<db, auth_cache, throttle_cache, now, ticks>>
count_vars == <<delay_calls, handler_calls, throttled, requests>>

\* POST /api-keys: APIKeyCreateView.create, APIKeyCreateSerializer.create
\* secrets: the key values to issue, each issued once (secrets.token_urlsafe, or
\* a key the caller chose that is not in use).
\* quotas: pairs <<quota_requests_per_minute, quota_requests_per_day>>.
CreateAPIKey(secrets, quotas) ==
    /\ pc = "idle"
    /\ Len(db) < MaxKeys
    /\ \E key_value \in secrets, quota \in quotas :
          /\ \A i \in 1 .. Len(db) : ~check_key(db[i], key_value)
          /\ db' = Append(db, new_api_key(Len(db) + 1, key_value, quota[1], quota[2]))
    /\ UNCHANGED <<pvars, audit, workers, quota_changes, issuing, auth_cache, throttle_cache, now, ticks, pc, header, user, queried, held,
                   body, pending, response, dispatches, count_vars>>

\* An operator sets APIKey.revoked.
RevokeKey ==
    /\ pc = "idle"
    /\ \E i \in 1 .. Len(db) :
          /\ ~db[i].revoked
          /\ db' = [db EXCEPT ![i].revoked = TRUE]
    /\ UNCHANGED <<pvars, audit, workers, quota_changes, issuing, auth_cache, throttle_cache, now, ticks, pc, header, user, queried, held,
                   body, pending, response, dispatches, count_vars>>

\* APIKeyCreateSerializer.create, line 41: APIKey.objects.create inserts the
\* row, its hashed_key and prefix_key not set yet. Requests are answered by
\* other processes meanwhile.
InsertAPIKey(secrets, quotas) ==
    /\ issuing = None
    /\ Len(db) < MaxKeys
    /\ \E key_value \in secrets, quota \in quotas :
          /\ \A i \in 1 .. Len(db) : ~check_key(db[i], key_value)
          /\ db' = Append(db, [new_api_key(Len(db) + 1, key_value, quota[1], quota[2])
                                  EXCEPT !.hashed_key = UNSET_HASH,
                                         !.prefix_key = UNSET_PREFIX])
          /\ issuing' = [id |-> Len(db) + 1, key_value |-> key_value]
    /\ UNCHANGED <<pvars, audit, workers, quota_changes, auth_cache, throttle_cache, now, ticks, pc,
                   header, user, queried, held, body, pending, response, dispatches,
                   count_vars>>

\* create, lines 43-59: set_key, prefix_key, save(); the response returns.
SaveAPIKey ==
    /\ issuing # None
    /\ db' = [db EXCEPT ![issuing.id] =
                 new_api_key(issuing.id, issuing.key_value,
                             db[issuing.id].quota_requests_per_minute,
                             db[issuing.id].quota_requests_per_day)]
    /\ issuing' = None
    /\ UNCHANGED <<pvars, audit, workers, quota_changes, auth_cache, throttle_cache, now, ticks, pc,
                   header, user, queried, held, body, pending, response, dispatches,
                   count_vars>>

\* An operator saves other quotas for a key (APIKey.quota_requests_per_minute,
\* APIKey.quota_requests_per_day).
ChangeQuota(quotas) ==
    /\ pc = "idle"
    /\ Len(quota_changes) < MaxChanges
    /\ \E i \in 1 .. Len(db), quota \in quotas :
          /\ <<db[i].quota_requests_per_minute, db[i].quota_requests_per_day>> # quota
          /\ db' = [db EXCEPT ![i].quota_requests_per_minute = quota[1],
                              ![i].quota_requests_per_day = quota[2]]
          /\ quota_changes' = Append(quota_changes, [key |-> i, at |-> now])
    /\ UNCHANGED <<pvars, audit, workers, issuing, auth_cache, throttle_cache, now, ticks, pc, header, user,
                   queried, held, body, pending, response, dispatches, count_vars>>

\* Time passes between two requests; the cache server drops what has expired.
Tick(steps) ==
    /\ pc = "idle"
    /\ ticks < MaxTicks
    /\ \E d \in steps :
          /\ now' = now + d
          /\ auth_cache' = unexpired(auth_cache, now + d)
          /\ throttle_cache' = unexpired(throttle_cache, now + d)
    /\ ticks' = ticks + 1
    /\ UNCHANGED <<pvars, audit, workers, quota_changes, issuing, db, pc, header, user, queried, held, body, pending, response, dispatches,
                   count_vars>>

\* A request arrives at POST /validate.
Receive(headers) ==
    /\ pc = "idle"
    /\ requests < MaxRequests
    /\ header' \in headers
    /\ requests' = requests + 1
    /\ pc' = "authenticate"
    /\ UNCHANGED <<pvars, audit, workers, quota_changes, issuing, store_vars, user, queried, held, body, pending, response, dispatches,
                   delay_calls, handler_calls, throttled>>

\* Authenticate with an answer of its own for the secret of a revoked key.
Authenticate_names_revoked ==
    /\ pc = "authenticate"
    /\ LET api_key == get_api_key(header)
           hit == cached_key_data(auth_cache, api_key, now)
           found == verified_keys(db, api_key)
       IN  IF api_key = <<>>
           THEN /\ response' = [status |-> HTTP_403_FORBIDDEN,
                                data |-> detail("APIKey Required")]
                /\ pc' = "done"
                /\ UNCHANGED <<user, queried, held, auth_cache>>
           ELSE
           /\ held' = cache_entry_kind(auth_cache, api_key, now)
           /\ IF hit # None
              THEN /\ user' = hit
                   /\ pc' = "throttle"
                   /\ UNCHANGED <<response, queried, auth_cache>>
              ELSE IF found # {}
              THEN \E i \in found :
                      /\ auth_cache' = cache_after_lookup(auth_cache, api_key, db, i, now)
                      /\ user' = loaded(db[i])
                      /\ queried' = TRUE
                      /\ pc' = "throttle"
                      /\ UNCHANGED response
              ELSE /\ auth_cache' = cache_after_lookup(auth_cache, api_key, db, 0, now)
                   /\ response' = [status |-> HTTP_403_FORBIDDEN,
                                   data |-> IF \E k \in 1 .. Len(db) :
                                                  db[k].revoked /\ check_key(db[k], api_key)
                                            THEN detail_list(<<"Revoked API key.">>)
                                            ELSE detail_list(<<"Invalid API key.">>)]
                   /\ queried' = TRUE
                   /\ pc' = "done"
                   /\ UNCHANGED user
    /\ UNCHANGED <<pvars, audit, workers, quota_changes, issuing, db, throttle_cache, now, ticks, header, body, pending,
                   dispatches, count_vars>>

\* Authenticate storing the key again, for another 300 s, on every cache hit.
Authenticate_refreshes_hit ==
    /\ pc = "authenticate"
    /\ LET api_key == get_api_key(header)
           hit == cached_key_data(auth_cache, api_key, now)
           found == verified_keys(db, api_key)
       IN  IF api_key = <<>>
           THEN /\ response' = [status |-> HTTP_403_FORBIDDEN,
                                data |-> detail("APIKey Required")]
                /\ pc' = "done"
                /\ UNCHANGED <<user, queried, held, auth_cache>>
           ELSE
           /\ held' = cache_entry_kind(auth_cache, api_key, now)
           /\ IF hit # None
              THEN /\ user' = hit
                   /\ pc' = "throttle"
                   /\ auth_cache' = cache_set(auth_cache, api_key, hit, POSITIVE_TTL, now)
                   /\ UNCHANGED <<response, queried>>
              ELSE IF found # {}
              THEN \E i \in found :
                      /\ auth_cache' = cache_after_lookup(auth_cache, api_key, db, i, now)
                      /\ user' = loaded(db[i])
                      /\ queried' = TRUE
                      /\ pc' = "throttle"
                      /\ UNCHANGED response
              ELSE /\ auth_cache' = cache_after_lookup(auth_cache, api_key, db, 0, now)
                   /\ response' = [status |-> HTTP_403_FORBIDDEN,
                                   data |-> detail_list(<<"Invalid API key.">>)]
                   /\ queried' = TRUE
                   /\ pc' = "done"
                   /\ UNCHANGED user
    /\ UNCHANGED <<pvars, audit, workers, quota_changes, issuing, db, throttle_cache, now, ticks, header, body, pending,
                   dispatches, count_vars>>

\* Authenticate passing a request without a key on, unauthenticated.
Authenticate_passes_anonymous ==
    /\ pc = "authenticate"
    /\ LET api_key == get_api_key(header)
           hit == cached_key_data(auth_cache, api_key, now)
           found == verified_keys(db, api_key)
       IN  IF api_key = <<>>
           THEN /\ pc' = "throttle"
                /\ UNCHANGED <<response, user, queried, held, auth_cache>>
           ELSE
           /\ held' = cache_entry_kind(auth_cache, api_key, now)
           /\ IF hit # None
              THEN /\ user' = hit
                   /\ pc' = "throttle"
                   /\ UNCHANGED <<response, queried, auth_cache>>
              ELSE IF found # {}
              THEN \E i \in found :
                      /\ auth_cache' = cache_after_lookup(auth_cache, api_key, db, i, now)
                      /\ user' = loaded(db[i])
                      /\ queried' = TRUE
                      /\ pc' = "throttle"
                      /\ UNCHANGED response
              ELSE /\ auth_cache' = cache_after_lookup(auth_cache, api_key, db, 0, now)
                   /\ response' = [status |-> HTTP_403_FORBIDDEN,
                                   data |-> detail_list(<<"Invalid API key.">>)]
                   /\ queried' = TRUE
                   /\ pc' = "done"
                   /\ UNCHANGED user
    /\ UNCHANGED <<pvars, audit, workers, quota_changes, issuing, db, throttle_cache, now, ticks, header, body, pending,
                   dispatches, count_vars>>

\* APIKeyAuthentication.authenticate, with get_api_key_data.
Authenticate ==
    /\ pc = "authenticate"
    /\ LET api_key == get_api_key(header)
           hit == cached_key_data(auth_cache, api_key, now)
           found == verified_keys(db, api_key)
       IN  IF api_key = <<>>
           THEN /\ response' = [status |-> HTTP_403_FORBIDDEN,
                                data |-> detail("APIKey Required")]
                /\ pc' = "done"
                /\ UNCHANGED <<user, queried, held, auth_cache>>
           ELSE
           /\ held' = cache_entry_kind(auth_cache, api_key, now)
           /\ IF hit # None
              THEN /\ user' = hit
                   /\ pc' = "throttle"
                   /\ UNCHANGED <<response, queried, auth_cache>>
              ELSE IF found # {}
              THEN \E i \in found :
                      /\ auth_cache' = cache_after_lookup(auth_cache, api_key, db, i, now)
                      /\ user' = loaded(db[i])
                      /\ queried' = TRUE
                      /\ pc' = "throttle"
                      /\ UNCHANGED response
              ELSE /\ auth_cache' = cache_after_lookup(auth_cache, api_key, db, 0, now)
                   /\ response' = [status |-> HTTP_403_FORBIDDEN,
                                   data |-> detail_list(<<"Invalid API key.">>)]
                   /\ queried' = TRUE
                   /\ pc' = "done"
                   /\ UNCHANGED user
    /\ UNCHANGED <<pvars, audit, workers, quota_changes, issuing, db, throttle_cache, now, ticks, header, body, pending,
                   dispatches, count_vars>>

\* APIView.check_throttles with APIKeyRateThrottle and DailyAPIKeyThrottle.
CheckThrottles ==
    /\ pc = "throttle"
    /\ LET verdict == check_throttles(throttle_cache, header, user, now)
           answer == IF verdict.allowed THEN NoResponse
                     ELSE [status |-> HTTP_429_TOO_MANY_REQUESTS,
                           data |-> throttled_detail(verdict.wait)]
       IN
       /\ throttle_cache' = verdict.cache
       /\ throttled' = Append(throttled,
                              [at |-> now, ident |-> throttle_ident(header),
                               key |-> _get_api_key_id(user),
                               with_key |-> has_api_key(user),
                               by_header |-> has_header(header),
                               per_minute |-> _get_custom_rate(SCOPE_MINUTE, user),
                               per_day |-> _get_custom_rate(SCOPE_DAILY, user),
                               minute |-> verdict.minute,
                               daily |-> verdict.daily,
                               admitted |-> verdict.allowed,
                               answer |-> answer])
       /\ IF verdict.allowed
          THEN pc' = "post" /\ UNCHANGED response
          ELSE response' = answer /\ pc' = "done"
    /\ UNCHANGED <<pvars, audit, workers, quota_changes, issuing, db, auth_cache, now, ticks, header, user, queried, held, body, pending,
                   dispatches, delay_calls, handler_calls, requests>>

\* post, lines 57-71: the request serializer.
PostValidateRequest(bodies) ==
    /\ pc = "post"
    /\ handler_calls' = handler_calls + 1
    /\ body' \in bodies
    /\ IF request_is_valid(body')
       THEN /\ national_id' = strip(body'.national_id)
            /\ strict_checksum' = body'.strict_checksum
            /\ pc' = "parse"
            /\ UNCHANGED pending
       ELSE /\ pending' =
                 [status |-> HTTP_400_BAD_REQUEST,
                  data |-> response_data(FALSE,
                              <<"Invalid request: " \o request_error_fields(body')>>,
                              None)]
            /\ pc' = "log_error"
            /\ UNCHANGED <<national_id, strict_checksum>>
    /\ UNCHANGED <<today, audit, workers, quota_changes, issuing, result, edits, store_vars, header, user, queried, held, response,
                   dispatches, delay_calls, throttled, requests>>

\* post, lines 73-86: the parser runs; a ValueError it raises leaves post.
\* response_data is built; status_number is not assigned yet.
PostParse ==
    /\ pc = "parse"
    /\ result' = validate_and_parse(national_id, strict_checksum, today)
    /\ IF result'.kind = "raise"
       THEN /\ response' = [status |-> HTTP_500_INTERNAL_SERVER_ERROR,
                            data |-> detail("Server Error (500)")]
            /\ pc' = "done"
            /\ UNCHANGED pending
       ELSE /\ pending' =
                 [status |-> NoResponse.status,
                  data |-> response_data(result'.valid, result'.errors,
                              IF result'.valid THEN result'.parsed ELSE None)]
            /\ pc' = "log"
            /\ UNCHANGED response
    /\ UNCHANGED <<national_id, strict_checksum, today, audit, edits, workers, quota_changes, issuing, store_vars, header,
                   user, queried, held, body, dispatches, count_vars>>

\* _log_validation_async without its try/except: what delay raises leaves post.
LogValidationAsync_propagates(brokers) ==
    /\ pc = "log"
    /\ \E enqueued \in brokers :
          /\ dispatches' = Append(dispatches,
                                  delay(_get_api_key_id(user), HTTP_200_OK,
                                        logged_national_id(national_id, result.valid),
                                        pending.data, enqueued))
          /\ IF enqueued
             THEN pc' = "respond" /\ UNCHANGED response
             ELSE /\ response' = [status |-> HTTP_500_INTERNAL_SERVER_ERROR,
                                  data |-> detail("Server Error (500)")]
                  /\ pc' = "done"
    /\ delay_calls' = delay_calls + 1
    /\ pending' = [pending EXCEPT !.status = status_number(result.errors)]
    /\ UNCHANGED <<pvars, audit, workers, quota_changes, issuing, store_vars, header, user, queried, held, body,
                   handler_calls, throttled, requests>>

\* _log_validation_async (lines 89-92): one delay call, enqueued or raising;
\* what it raises is swallowed.  Then status_number is assigned (lines 93-95).
\* brokers: TRUE where the broker takes the task, FALSE where delay raises.
LogValidationAsync(brokers) ==
    /\ pc = "log"
    /\ \E enqueued \in brokers :
          dispatches' = Append(dispatches,
                               delay(_get_api_key_id(user), HTTP_200_OK,
                                     logged_national_id(national_id, result.valid),
                                     pending.data, enqueued))
    /\ delay_calls' = delay_calls + 1
    /\ pending' = [pending EXCEPT !.status = status_number(result.errors)]
    /\ pc' = "respond"
    /\ UNCHANGED <<pvars, audit, workers, quota_changes, issuing, store_vars, header, user, queried, held, body, response,
                   handler_calls, throttled, requests>>

\* post, lines 98-108: the response serializer, then the response.
PostRespond ==
    /\ pc = "respond"
    /\ IF response_is_valid(pending.data)
       THEN /\ response' = pending
            /\ pc' = "done"
            /\ UNCHANGED pending
       ELSE /\ pending' = [status |-> HTTP_500_INTERNAL_SERVER_ERROR,
                           data |-> response_data(FALSE,
                                        <<"internal_validation_error">>, None)]
            /\ pc' = "log_error"
            /\ UNCHANGED response
    /\ UNCHANGED <<pvars, audit, workers, quota_changes, issuing, store_vars, header, user, queried, held, body, dispatches, count_vars>>

\* _build_error_response with _log_error_validation: request.data.get raises
\* unless the body is an object, and what is raised is swallowed.
BuildErrorResponse(brokers) ==
    /\ pc = "log_error"
    /\ IF body.kind = "object"
       THEN /\ \E enqueued \in brokers :
                  dispatches' = Append(dispatches,
                                       delay(_get_api_key_id(user), pending.status,
                                             MASK, pending.data, enqueued))
            /\ delay_calls' = delay_calls + 1
       ELSE UNCHANGED <<dispatches, delay_calls>>
    /\ response' = pending
    /\ pc' = "done"
    /\ UNCHANGED <<pvars, audit, workers, quota_changes, issuing, store_vars, header, user, queried, held, body, pending, handler_calls,
                   throttled, requests>>

\* The response is sent; the worker is free for the next request.
Finish ==
    /\ pc = "done"
    /\ pc' = "idle"
    /\ national_id' = <<>>
    /\ strict_checksum' = FALSE
    /\ result' = NotRun
    /\ header' = <<>>
    /\ user' = None
    /\ queried' = FALSE
    /\ held' = "unread"
    /\ body' = NoBody
    /\ pending' = NoResponse
    /\ response' = NoResponse
    /\ dispatches' = <<>>
    /\ UNCHANGED <<today, audit, workers, quota_changes, issuing, edits, store_vars, count_vars>>

\* The request handler: every kind of body, a broker that may fail, one secret
\* issued.
Next ==
    \/ CreateAPIKey({KEY_A}, {<<2, 2>>})
    \/ RevokeKey
    \/ Tick({MINUTE})
    \/ Receive({<<>>, <<SPACE>>, KEY_A, KEY_B})
    \/ Authenticate
    \/ CheckThrottles
    \/ PostValidateRequest(Bodies)
    \/ PostParse
    \/ LogValidationAsync(BOOLEAN)
    \/ PostRespond
    \/ BuildErrorResponse(BOOLEAN)
    \/ Finish

Spec == Init /\ [][Next]_vars

\* The request in flight reached ValidateIDView.post.
ReachedHandler == body # NoBody

\* C7: a request that passed authentication, throttling and the body schema
\* is answered 200 with (True, [], parsed) exactly when the parser result is
\* valid and 400 with (False, errors, None) exactly when it is invalid; any
\* other status comes from the response failing its shape check.
C7_StatusFollowsParser ==
    (pc = "done" /\ ReachedHandler /\ request_is_valid(body)) =>
        /\ response.status = 200 <=> (result.kind = "return" /\ result.valid)
        /\ response.status = 400 <=> (result.kind = "return" /\ ~result.valid)
        /\ response.status = 200 =>
              response.data = [valid |-> TRUE, errors |-> <<>>,
                               parsed |-> result.parsed]
        /\ response.status = 400 =>
              response.data = [valid |-> FALSE, errors |-> result.errors,
                               parsed |-> None]
        /\ response.status \notin {200, 400} =>
              pending # NoResponse /\ ~response_is_valid(pending.data)

C9_DispatchesEqualHandled ==
    /\ (pc = "done" /\ response.status \in {403, 429}) => dispatches = <<>>
    /\ pc \in {"idle", "done"} => delay_calls = handler_calls

\* The response the request's body alone determines.
ResponseFor(data, clock_date) ==
    IF ~request_is_valid(data)
    THEN [status |-> 400,
          data |-> [valid |-> FALSE,
                    errors |-> <<"Invalid request: " \o request_error_fields(data)>>,
                    parsed |-> None]]
    ELSE LET r == validate_and_parse(data.national_id, data.strict_checksum,
                                     clock_date)
         IN  IF r.kind = "raise"
             THEN [status |-> 500, data |-> detail("Server Error (500)")]
             ELSE [status |-> IF r.valid THEN 200 ELSE 400,
                   data |-> [valid |-> r.valid, errors |-> r.errors,
                             parsed |-> r.parsed]]

\* C10: the response of a request that reached the handler is the one its
\* body determines, whether the delay call was enqueued or raised.
C10_ResponseIgnoresDispatch ==
    (pc = "done" /\ ReachedHandler) => response = ResponseFor(body, today)

\* A 200 was sent although the delay call raised.
C10_Witness ==
    /\ pc = "done"
    /\ Len(dispatches) = 1
    /\ ~dispatches[1].enqueued
    /\ response.status = 200
    /\ response.data.valid

\* The audit record holds the text whole, in its request or its response data.
HoldsWhole(record, text) ==
    \/ record.national_id = text
    \/ /\ record.response_data.parsed # None
       /\ record.response_data.parsed.raw = text

\* C23: the national id of the audit record is the first 8 characters of
\* the submitted value and '****' when the code is valid, '****' when the
\* body fails the schema, and the submitted value when the parser rejects
\* the code; and no audit record the broker took holds all the characters of
\* a code that was accepted as valid.
C23_AuditRecordIsMasked ==
    pc = "done" =>
        \A i \in 1 .. Len(dispatches) :
            LET record == dispatches[i]
                accepted == result.kind = "return" /\ result.valid
                rejected == result.kind = "return" /\ ~result.valid
            IN  /\ ~request_is_valid(body) => record.national_id = MASK
                /\ accepted =>
                      record.national_id = SubSeq(body.national_id, 1, 8) \o MASK
                /\ rejected => record.national_id = body.national_id
                /\ (accepted /\ record.enqueued) =>
                      ~HoldsWhole(record, body.national_id)

\* C24: a request whose body fails the schema (national_id missing or
\* blank, or a body that is no JSON object) is answered 400 with valid false,
\* parsed null and the one error 'Invalid request: <fields>'; the parser is
\* not run, and exactly one delay call is made, with status_code 400 and the
\* id of the authenticated key.
C24_SchemaFailure ==
    (pc = "done" /\ ReachedHandler /\ ~request_is_valid(body)) =>
        /\ response.status = 400
        /\ response.data.valid = FALSE
        /\ response.data.parsed = None
        /\ response.data.errors \in {<<"Invalid request: national_id">>,
                                     <<"Invalid request: non_field_errors">>}
        /\ result = NotRun
        /\ Len(dispatches) = 1
        /\ dispatches[1].status_code = 400
        /\ dispatches[1].api_key_id = user.id

\* C28: the status_code of every delay call made for a request equals the
\* HTTP status of the response to that request: 200 for a valid code, 400
\* for a schema failure and for a code the parser rejects, 500 for an
\* internal shape failure.
C28_AuditStatusIsResponseStatus ==
    pc = "done" =>
        \A i \in 1 .. Len(dispatches) :
            dispatches[i].enqueued => dispatches[i].status_code = response.status

\* The throttle histories are written by this step (and not merely expired).
TouchesThrottle == throttle_cache' # throttle_cache /\ now' = now

\* The parser runs in this step.
RunsParser == result' # result /\ result'.kind # "none"

\* log_validation_task.delay is called in this step.
DispatchesAudit == delay_calls' > delay_calls

\* The throttles admitted the request in flight.
PassedThrottle == throttled # <<>> /\ throttled[Len(throttled)].admitted

\* C29: per request the stages run in the order authenticate, throttle,
\* parse, respond, dispatch audit: the throttle histories are written only
\* for an authenticated request, the parser runs only for a request that
\* passed authentication and throttling, and the audit record is dispatched
\* only when the status and the body of the response have been determined.
C29_StageOrder ==
    [][/\ TouchesThrottle => (pc = "throttle" /\ user # None)
       /\ RunsParser => (pc = "parse" /\ user # None /\ PassedThrottle)
       /\ DispatchesAudit => (/\ pending.status # NoResponse.status
                              /\ pending.data # None)]_vars

\* C35: on the validate endpoint the throttles evaluate only requests that
\* carry an authenticated key: the rates applied are never the defaults
\* 2/minute and 100/day of a request without a key, and the identity counted
\* under is never the client's address.
C35_ThrottlesSeeOnlyKeys ==
    /\ pc = "throttle" => (has_api_key(user) /\ has_header(header))
    /\ \A j \in 1 .. Len(throttled) :
          /\ throttled[j].with_key
          /\ throttled[j].by_header
          /\ throttled[j].ident # REMOTE_ADDR
          /\ throttled[j].key \in 1 .. Len(db)
    /\ \A e \in throttle_cache : e.key[2] # REMOTE_ADDR

\* A request without a key was refused and left the throttles' log as it was
\* after the requests with a key that came before.
C35_Witness ==
    /\ pc = "done"
    /\ ~has_header(header)
    /\ response.status = HTTP_403_FORBIDDEN
    /\ throttled # <<>>
    /\ Len(throttled) < requests

\* The authenticator: two secrets with the same prefix, revocation, and the
\* clock around the two cache lifetimes.
AuthNext ==
    \/ CreateAPIKey({KEY_A, KEY_B}, {<<2, 2>>})
    \/ RevokeKey
    \/ Tick({1, NEGATIVE_TTL - 1, POSITIVE_TTL - 1})
    \/ Receive({<<>>, KEY_A, KEY_B})
    \/ Authenticate
    \/ CheckThrottles
    \/ PostValidateRequest({json_object(VALID_ID, FALSE)})
    \/ PostParse
    \/ LogValidationAsync({TRUE})
    \/ PostRespond
    \/ Finish

SpecAuth == Init /\ [][AuthNext]_vars

\* The rows a presented secret may authenticate as: not revoked, prefix_key
\* the secret's first 8 characters, and a hash that verifies the secret.
MatchingRows(secret) ==
    {i \in 1 .. Len(db) :
        /\ ~db[i].revoked
        /\ db[i].prefix_key = SubSeq(secret, 1, 8)
        /\ db[i].hashed_key = make_password(secret)}

\* C5: when the lookup misses the cache and queries the table, it succeeds
\* exactly when some row is not revoked, has the secret's first 8 characters
\* as prefix_key and a hash verifying the secret; it returns such a row and
\* caches it under the full secret for 300 s; otherwise the answer is 403.
C5_LookupOnMiss ==
    queried =>
        LET secret == strip(header) IN
        /\ user # None <=> MatchingRows(secret) # {}
        /\ user # None =>
              /\ \E i \in MatchingRows(secret) : user = loaded(db[i])
              /\ [key |-> secret, value |-> user, expires |-> now + 300] \in auth_cache
        /\ user = None => pc = "done" /\ response.status = HTTP_403_FORBIDDEN

\* The lookup returned the second row: the first has the same prefix and is
\* revoked, another request was answered for the other secret of that prefix.
C5_Witness ==
    /\ queried
    /\ pc = "throttle"
    /\ Len(db) = 2
    /\ db[1].revoked
    /\ db[1].prefix_key = db[2].prefix_key
    /\ user = loaded(db[2])
    /\ requests > 1

\* C11: while the cache holds the tombstone of a secret (60 s after a failed
\* lookup), presenting that secret again is answered from the cache with the
\* invalid-key error, and the api_keys table is not queried again.
C11_TombstoneAnswers ==
    held = "tombstone" =>
        /\ ~queried
        /\ pc = "done"
        /\ response = [status |-> 403, data |-> detail_list(<<"Invalid API key.">>)]

\* The answer to a secret that does not authenticate.
InvalidKeyResponse ==
    [status |-> 403, data |-> [list |-> <<"Invalid API key.">>]]

\* C19: a presented secret that is not empty and does not authenticate (no
\* cached key, and no row that is not revoked, has its prefix and verifies
\* it) gets status 403 and the same generic detail, whether no row has its
\* prefix, a row has the prefix and another hash, the row of the secret is
\* revoked, or the cache holds the tombstone of the secret.
C19_FailuresAlike ==
    LET secret == strip(header) IN
    /\ (pc \notin {"idle", "authenticate"} /\ secret # <<>>
            /\ held # "key" /\ MatchingRows(secret) = {})
          => (pc = "done" /\ user = None /\ response = InvalidKeyResponse)
    /\ (pc = "done" /\ user = None /\ secret # <<>>)
          => response = InvalidKeyResponse

\* The secret of a revoked key is refused while the cache holds its tombstone.
C19_Witness ==
    /\ pc = "done"
    /\ response = InvalidKeyResponse
    /\ held = "tombstone"
    /\ \E i \in 1 .. Len(db) :
          db[i].revoked /\ db[i].hashed_key = make_password(strip(header))

\* The text without the spaces at its two ends.
Trimmed(text) ==
    LET kept == {i \in 1 .. Len(text) : text[i] # SPACE} IN
    IF kept = {} THEN <<>>
    ELSE LET first == CHOOSE i \in kept : \A j \in kept : i <= j
             last == CHOOSE i \in kept : \A j \in kept : j <= i
         IN  [k \in 1 .. last - first + 1 |-> text[first + k - 1]]

\* The X-API-Key header of the request is missing, or empty once trimmed.
NoKeyPresented == Trimmed(header) = <<>>

\* No key was looked up, no throttle asked, and the handler was not entered.
RejectedAtOnce ==
    /\ pc = "done"
    /\ response.status = 403
    /\ user = None
    /\ ~queried
    /\ held = "unread"
    /\ body = NoBody
    /\ result = NotRun
    /\ dispatches = <<>>

\* C27: revocation takes effect at once: authenticate never returns a key
\* whose row in the api_keys table is revoked at that moment, also when the
\* same secret was authenticated and cached before the revocation.
C27_RevokedNeverAuthenticates ==
    (pc \notin {"idle", "authenticate"} /\ user # None) => ~db[user.id].revoked

\* The cache holds a key record under the secret of the request in flight.
KeyIsCached ==
    \E e \in auth_cache :
        e.key = get_api_key(header) /\ e.value # None /\ e.expires > now

\* C33: a record that authenticate cached for a secret is kept for 300 s,
\* and every authenticate of that secret in that time returns the cached
\* record and does not query the api_keys table; an entry is returned only
\* for the secret it was stored under, in full, never for another secret
\* with the same first 8 characters.
C33_CachedKeyServed ==
    [][/\ (pc = "authenticate" /\ pc' = "throttle" /\ queried') =>
             \E e \in auth_cache' :
                 /\ e.key = get_api_key(header)
                 /\ e.value = user'
                 /\ e.expires = now + POSITIVE_TTL
       /\ \A e \in auth_cache :
             (e.value # None /\ e.expires > now') => e \in auth_cache'
       /\ (pc = "authenticate" /\ KeyIsCached) =>
             /\ pc' = "throttle"
             /\ ~queried'
             /\ auth_cache' = auth_cache
       /\ (pc = "authenticate" /\ pc' = "throttle" /\ ~queried') =>
             \E e \in auth_cache :
                 /\ e.key = get_api_key(header)
                 /\ e.value = user'
                 /\ check_key(user', get_api_key(header))]_vars

\* KEY_A is served from the cache 299 s after it was cached, while the cache
\* also holds the record of KEY_B, which has the same first 8 characters.
C33_Witness ==
    /\ pc = "throttle"
    /\ get_api_key(header) = KEY_A
    /\ held = "key"
    /\ ~queried
    /\ \E e \in auth_cache :
          e.key = KEY_A /\ e.value = user /\ now = e.expires - 1
    /\ \E e \in auth_cache : e.key = KEY_B /\ e.value # None

\* C20: a request whose X-API-Key header is missing or empty after trimming
\* is answered 403 by the authentication step itself: that step reads no
\* cache entry, queries no row, leaves the caches of keys and of throttle
\* histories and the log of throttle checks as they were, and neither the
\* handler nor the parser runs for the request.
C20_NoKeyRejectedAtOnce ==
    /\ []((NoKeyPresented /\ pc \notin {"idle", "authenticate"}) => RejectedAtOnce)
    /\ [][(NoKeyPresented /\ pc = "authenticate") =>
             /\ pc' = "done"
             /\ UNCHANGED <<db, auth_cache, throttle_cache, throttled, handler_calls,
                            delay_calls, queried, held>>]_vars

\* A header of one space is refused after other requests filled the caches.
C20_Witness ==
    /\ header = <<SPACE>>
    /\ RejectedAtOnce
    /\ auth_cache # {}
    /\ throttle_cache # {}

\* The throttles: quotas of 1 and 2 a minute, and the clock around the minute.
ThrottleNext ==
    \/ CreateAPIKey({KEY_A}, {<<1, 2>>, <<2, 2>>, <<2, 1>>})
    \/ RevokeKey
    \/ Tick({1, MINUTE - 1})
    \/ Receive({KEY_A, PADDED_KEY_A})
    \/ Authenticate
    \/ CheckThrottles
    \/ PostValidateRequest({json_object(VALID_ID, FALSE)})
    \/ PostParse
    \/ LogValidationAsync({TRUE})
    \/ PostRespond
    \/ Finish

SpecThrottle == Init /\ [][ThrottleNext]_vars

\* The requests the throttles saw for key k, in order, as indices of the log.
RequestsOfKey(k) == {j \in 1 .. Len(throttled) : throttled[j].key = k}

\* Those among them that came less than 60 s after the first one.
FirstWindow(k) ==
    LET first == CHOOSE j \in RequestsOfKey(k) : \A i \in RequestsOfKey(k) : j <= i
    IN  {j \in RequestsOfKey(k) : throttled[j].at < throttled[first].at + 60}

\* C6: from empty throttle state, for a key with per-minute quota N not above
\* its daily quota, of the requests with that key that come within 60 s of
\* the first one the first N are admitted and every later one is rejected.
C6_QuotaPerMinute ==
    \A k \in 1 .. Len(db) :
        (RequestsOfKey(k) # {}
           /\ db[k].quota_requests_per_minute <= db[k].quota_requests_per_day) =>
            \A j \in FirstWindow(k) :
                throttled[j].admitted <=>
                    Cardinality({i \in FirstWindow(k) : i <= j})
                        <= db[k].quota_requests_per_minute

\* The same, counting apart the requests that sent the header in another form.
QuotaPerMinutePerHeader ==
    \A k \in 1 .. Len(db) :
        (RequestsOfKey(k) # {}
           /\ db[k].quota_requests_per_minute <= db[k].quota_requests_per_day) =>
            \A j \in FirstWindow(k) :
                LET same == {i \in RequestsOfKey(k) :
                                throttled[i].ident = throttled[j].ident}
                    first == CHOOSE i \in same : \A h \in same : i <= h
                    window == {i \in same :
                                  throttled[i].at < throttled[first].at + 60}
                IN  j \in window =>
                       (throttled[j].admitted <=>
                           Cardinality({i \in window : i <= j})
                               <= db[k].quota_requests_per_minute)

\* The admitted requests of key k in the duration that ends with request j.
AdmittedOfKey(k, j, duration) ==
    {i \in RequestsOfKey(k) :
        /\ i <= j
        /\ throttled[i].admitted
        /\ throttled[i].at > throttled[j].at - duration}

\* C31: the identity the throttles count an admitted request under is the
\* secret that was authenticated, so that all requests authenticated as one
\* key share one counter per scope: the admitted requests of one key within
\* a minute are never more than its quota per minute, and within a day never
\* more than its quota per day, however the header was padded with spaces.
C31_OneCounterPerKey ==
    \A k \in 1 .. Len(db) :
        \A j \in RequestsOfKey(k) :
            /\ throttled[j].admitted => throttled[j].ident = get_api_key(throttled[j].ident)
            /\ Cardinality(AdmittedOfKey(k, j, MINUTE)) <= throttled[j].per_minute
            /\ Cardinality(AdmittedOfKey(k, j, DAY)) <= throttled[j].per_day

\* The earlier requests of the identity of request j that a throttle counted
\* and that are younger than its duration when request j comes.
CountedBefore(j, counted(_), duration) ==
    {i \in 1 .. j - 1 :
        /\ throttled[i].ident = throttled[j].ident
        /\ counted(throttled[i])
        /\ throttled[i].at > throttled[j].at - duration}

CountedByMinute(entry) == entry.minute
CountedByDaily(entry) == entry.daily

MinuteAllows(j) ==
    Cardinality(CountedBefore(j, CountedByMinute, 60)) < throttled[j].per_minute

DailyAllows(j) ==
    Cardinality(CountedBefore(j, CountedByDaily, 86400)) < throttled[j].per_day

\* A request is admitted exactly when both throttles allow it.
BothMustAllow ==
    \A j \in 1 .. Len(throttled) :
        /\ throttled[j].minute <=> MinuteAllows(j)
        /\ throttled[j].daily <=> DailyAllows(j)
        /\ throttled[j].admitted <=> (MinuteAllows(j) /\ DailyAllows(j))

\* The request in flight was refused by a throttle.
RefusedByThrottle ==
    /\ pc = "done"
    /\ user # None
    /\ ~throttled[Len(throttled)].admitted

\* It is answered 429 as throttled, and neither handler nor parser ran.
AnsweredThrottled ==
    /\ response.status = 429
    /\ response.data.detail = "Request was throttled."
    /\ response = throttled[Len(throttled)].answer
    /\ body = NoBody
    /\ result = NotRun

RECURSIVE AdmittedInARow(_, _, _, _, _, _)
AdmittedInARow(c, scope, raw_header, num_requests, duration, t) ==
    LET verdict == allow_request(c, scope, raw_header, num_requests, duration, t) IN
    IF verdict.allowed
    THEN 1 + AdmittedInARow(verdict.cache, scope, raw_header, num_requests, duration, t)
    ELSE 0

\* C21: the minute window is anchored at its first request and resets as a
\* whole: when every request an identity has sent was admitted and came
\* less than 60 s after its first one, and 60 s have passed since that first one, the minute
\* throttle admits a full quota of further requests, wherever in the window
\* the earlier ones came.
C21_FixedWindows ==
    pc = "idle" =>
        \A j \in 1 .. Len(throttled) :
            LET same == {i \in 1 .. Len(throttled) :
                            throttled[i].ident = throttled[j].ident}
                first == CHOOSE i \in same : \A h \in same : i <= h
            IN  (/\ \A i \in same : throttled[i].admitted
                 /\ \A i \in same : throttled[i].at < throttled[first].at + 60
                 /\ now >= throttled[first].at + 60)
                => AdmittedInARow(throttle_cache, SCOPE_MINUTE, throttled[j].ident,
                                  throttled[j].per_minute, 60, now)
                      = throttled[j].per_minute

\* The requests of an identity that a scope's history holds at time t.
RecordedUsage(c, scope, raw_header, duration, t) ==
    LET key == get_cache_key(scope, raw_header)
    IN  IF cache_has(c, key, t)
        THEN Len(drop_old(cache_value(c, key, t), t - duration))
        ELSE 0

\* C30: a request answered 429 consumes no quota: the recorded usage of its
\* identity is the same after it as before it, in the per-minute scope and
\* in the per-day scope.
C30_RefusalConsumesNothing ==
    [][(pc = "throttle" /\ response'.status = HTTP_429_TOO_MANY_REQUESTS) =>
          /\ RecordedUsage(throttle_cache', SCOPE_MINUTE, header, MINUTE, now)
                = RecordedUsage(throttle_cache, SCOPE_MINUTE, header, MINUTE, now)
          /\ RecordedUsage(throttle_cache', SCOPE_DAILY, header, DAY, now)
                = RecordedUsage(throttle_cache, SCOPE_DAILY, header, DAY, now)]_vars

-----------------------------------------------------------------------------
(* Several server processes inside check_throttles at once.  A throttle    *)
(* reads its history with cache.get and writes it back with cache.set: two *)
(* calls, between which the other processes run.                           *)

worker_scope(stage) ==
    IF stage \in {"minute_get", "minute_set"} THEN SCOPE_MINUTE ELSE SCOPE_DAILY

worker_duration(stage) ==
    IF stage \in {"minute_get", "minute_set"} THEN MINUTE ELSE DAY

\* _get_custom_rate of the throttle the worker is in.
worker_num_requests(me) ==
    IF me.stage \in {"minute_get", "minute_set"}
    THEN me.user.quota_requests_per_minute
    ELSE me.user.quota_requests_per_day

\* Process w took a request with the secret of a key in force through
\* authentication; check_throttles starts with APIKeyRateThrottle.
WorkerBegin(w, secrets) ==
    /\ workers[w].stage = "idle"
    /\ \E k \in 1 .. Len(db), secret \in secrets :
          /\ ~db[k].revoked
          /\ check_key(db[k], secret)
          /\ workers' = [workers EXCEPT ![w] =
                            [IdleWorker EXCEPT !.stage = "minute_get",
                                               !.header = secret,
                                               !.user = db[k]]]
    /\ UNCHANGED <<pvars, audit, quota_changes, issuing, db, auth_cache, throttle_cache, now, pc, header, user, queried,
                   held, body, pending, response, dispatches, delay_calls, handler_calls,
                   throttled, requests, ticks>>

\* self.history = self.cache.get(self.key, []); self.now = self.timer()
ThrottleGet(w) ==
    /\ workers[w].stage \in {"minute_get", "daily_get"}
    /\ LET me == workers[w]
           key == get_cache_key(worker_scope(me.stage), me.header)
       IN  workers' = [workers EXCEPT ![w] =
               [me EXCEPT !.history = IF cache_has(throttle_cache, key, now)
                                      THEN cache_value(throttle_cache, key, now)
                                      ELSE <<>>,
                          !.now = now,
                          !.stage = IF me.stage = "minute_get"
                                    THEN "minute_set" ELSE "daily_set"]]
    /\ UNCHANGED <<pvars, audit, quota_changes, issuing, db, auth_cache, throttle_cache, now, pc, header, user, queried,
                   held, body, pending, response, dispatches, delay_calls, handler_calls,
                   throttled, requests, ticks>>

\* The rest of allow_request: old entries dropped, the length compared with
\* num_requests, and on success self.cache.set(self.key, self.history,
\* self.duration) with self.now put in front.
ThrottleSet(w) ==
    /\ workers[w].stage \in {"minute_set", "daily_set"}
    /\ LET me == workers[w]
           key == get_cache_key(worker_scope(me.stage), me.header)
           duration == worker_duration(me.stage)
           history == drop_old(me.history, me.now - duration)
           allowed == Len(history) < worker_num_requests(me)
       IN  /\ throttle_cache' =
                 IF allowed
                 THEN cache_set(throttle_cache, key, <<me.now>> \o history, duration, now)
                 ELSE throttle_cache
           /\ workers' = [workers EXCEPT ![w] =
                 IF me.stage = "minute_set"
                 THEN [me EXCEPT !.minute = allowed, !.stage = "daily_get"]
                 ELSE [me EXCEPT !.daily = allowed, !.stage = "done"]]
    /\ UNCHANGED <<pvars, audit, quota_changes, issuing, db, auth_cache, now, pc, header, user, queried,
                   held, body, pending, response, dispatches, delay_calls, handler_calls,
                   throttled, requests, ticks>>

\* One key, and as many requests with its secret as there are processes.
WorkersNext ==
    \/ CreateAPIKey({KEY_A}, {<<1, 2>>, <<2, 1>>})
    \/ Tick({1})
    \/ \E w \in 1 .. MaxWorkers :
          \/ WorkerBegin(w, {KEY_A})
          \/ ThrottleGet(w)
          \/ ThrottleSet(w)

SpecWorkers == Init /\ [][WorkersNext]_vars

\* The processes whose request passed both throttles.
AdmittedWorkers(k) ==
    {w \in 1 .. MaxWorkers :
        /\ workers[w].stage = "done"
        /\ workers[w].user.id = k
        /\ workers[w].minute
        /\ workers[w].daily}

\* C26: with several processes handling requests for the same secret at the
\* same time, the requests admitted inside one window are never more than
\* the key's quota, per minute and per day: two interleaved evaluations do
\* not both take the last remaining slot.
C26_AdmittedWithinQuota ==
    \A k \in 1 .. Len(db) :
        (\A v, w \in AdmittedWorkers(k) : workers[v].now - workers[w].now < MINUTE) =>
            /\ Cardinality(AdmittedWorkers(k)) <= db[k].quota_requests_per_minute
            /\ Cardinality(AdmittedWorkers(k)) <= db[k].quota_requests_per_day

-----------------------------------------------------------------------------
(* The quotas of a key are changed while its record is cached.             *)

\* One key, its quotas changed by an operator, and the clock around the 300 s
\* the key cache keeps a record.
QuotaNext ==
    \/ CreateAPIKey({KEY_A}, {<<1, 2>>})
    \/ ChangeQuota({<<1, 2>>, <<2, 2>>})
    \/ Tick({1, POSITIVE_TTL - 1})
    \/ Receive({KEY_A})
    \/ Authenticate
    \/ CheckThrottles
    \/ PostValidateRequest({json_object(VALID_ID, FALSE)})
    \/ PostParse
    \/ LogValidationAsync({TRUE})
    \/ PostRespond
    \/ Finish

SpecQuota == Init /\ [][QuotaNext]_vars

\* The quotas of a key record, per minute and per day.
QuotasOf(api_key) ==
    <<api_key.quota_requests_per_minute, api_key.quota_requests_per_day>>

\* The request in flight was resolved to a record whose quotas are not those
\* the api_keys table holds for the key now.
AppliesOldQuota ==
    /\ pc \notin {"idle", "authenticate"}
    /\ user # None
    /\ QuotasOf(user) # QuotasOf(db[user.id])

\* C32: the limits a throttle applies to a request are the quotas of the key
\* record resolved for that request, and quotas changed in the api_keys
\* table are the ones applied from 300 s after the change at the latest:
\* cache hits do not make the cached record live longer.
C32_QuotaOfResolvedKey ==
    /\ (pc \notin {"idle", "authenticate", "throttle"} /\ user # None) =>
          LET j == Len(throttled) IN
          /\ <<throttled[j].per_minute, throttled[j].per_day>> = QuotasOf(user)
          /\ throttled[j].minute <=>
                Cardinality(CountedBefore(j, CountedByMinute, MINUTE))
                    < user.quota_requests_per_minute
          /\ throttled[j].daily <=>
                Cardinality(CountedBefore(j, CountedByDaily, DAY))
                    < user.quota_requests_per_day
    /\ AppliesOldQuota =>
          \E i \in 1 .. Len(quota_changes) :
              /\ quota_changes[i].key = user.id
              /\ now - quota_changes[i].at < POSITIVE_TTL

\* A request is throttled by the old quotas 299 s after they were changed,
\* the record having been served from the cache before.
C32_Witness ==
    /\ AppliesOldQuota
    /\ pc = "done"
    /\ held = "key"
    /\ now - quota_changes[1].at = POSITIVE_TTL - 1

\* A request comes 300 s after the change and is throttled by the new quotas.
C32_WitnessFresh ==
    /\ pc = "done"
    /\ user # None
    /\ quota_changes # <<>>
    /\ now - quota_changes[1].at >= POSITIVE_TTL
    /\ QuotasOf(user) = QuotasOf(db[user.id])

-----------------------------------------------------------------------------
(* Keys are issued while requests are answered.                            *)

\* Two secrets, one of them shorter than 8 characters, each presented before,
\* while and after it is issued; the clock around the 60 s of a cached refusal.
IssueNext ==
    \/ InsertAPIKey({KEY_A, SHORT_KEY}, {<<2, 2>>})
    \/ SaveAPIKey
    \/ Tick({1, NEGATIVE_TTL - 1})
    \/ Receive({KEY_A, SHORT_KEY})
    \/ Authenticate
    \/ CheckThrottles
    \/ PostValidateRequest({json_object(VALID_ID, FALSE)})
    \/ PostParse
    \/ LogValidationAsync({TRUE})
    \/ PostRespond
    \/ Finish

SpecIssue == Init /\ [][IssueNext]_vars

\* Row i is written in full: POST /api-keys has returned for it.
Issued(i) == issuing = None \/ issuing.id # i

\* The issued rows that verify the secret.
IssuedFor(secret) ==
    {i \in 1 .. Len(db) : Issued(i) /\ check_key(db[i], secret)}

\* C34: a key issued with the secret S is stored with the first 8 characters
\* of S (all of S when it is shorter) as prefix_key and with a hash that
\* verifies S, and from the moment its issuance has returned authenticate(S)
\* succeeds for it, also when S was presented and refused less than 60 s
\* before; no authentication succeeds against a row that is written in part.
C34_IssuedKeyAuthenticates ==
    [][/\ (issuing # None /\ issuing' = None) =>
             LET row == db'[issuing.id]
                 S == issuing.key_value
             IN  /\ row.prefix_key = SubSeq(S, 1, IF Len(S) < 8 THEN Len(S) ELSE 8)
                 /\ check_key(row, S)
                 /\ ~row.revoked
       /\ \A i \in 1 .. Len(db) : Issued(i) => db'[i] = db[i]
       /\ (pc = "authenticate" /\ pc' # pc /\ IssuedFor(get_api_key(header)) # {}) =>
             /\ pc' = "throttle"
             /\ user'.id \in IssuedFor(get_api_key(header))
       /\ (pc = "authenticate" /\ pc' = "throttle") =>
             user'.id \in IssuedFor(get_api_key(header))]_vars

\* The short secret was refused, then issued, and is accepted while the cache
\* still holds the refusal.
C34_Witness ==
    /\ pc = "throttle"
    /\ get_api_key(header) = SHORT_KEY
    /\ held = "tombstone"
    /\ user # None
    /\ user.id \in IssuedFor(SHORT_KEY)
    /\ db[user.id].prefix_key = SHORT_KEY

-----------------------------------------------------------------------------
(* tasks.py: log_validation_task on a Celery worker.                       *)

\* @shared_task(bind=True, max_retries=3)
MAX_RETRIES == 3
\* self.retry(countdown=30, exc=exc)
COUNTDOWN == 30

\* All that a request is handled with: every variable but the worker's.
request_path ==
    <<pvars, db, auth_cache, throttle_cache, pc, header, user, queried, held, body,
      pending, response, dispatches, delay_calls, handler_calls, throttled, requests,
      ticks, workers, quota_changes, issuing>>

\* The broker hands a message of the request just answered to the worker.
DeliverTask ==
    /\ pc = "done"
    /\ \E i \in 1 .. Len(dispatches) :
          /\ dispatches[i].enqueued
          /\ \A n \in 1 .. Len(audit.tasks) :
                ~(audit.tasks[n].request = requests /\ audit.tasks[n].call = i)
          /\ audit' = [audit EXCEPT !.tasks =
                          Append(@, [request |-> requests, call |-> i,
                                     record |-> dispatches[i], state |-> "queued",
                                     retries |-> 0, runs |-> 0,
                                     eta |-> now, last_run |-> now])]
    /\ UNCHANGED <<request_path, now>>

\* Task.retry: the exception leaves the task for good once the retries made
\* plus this one are more than max_retries; else the message comes back
\* after the countdown.
retry(task, t) ==
    IF task.retries + 1 > MAX_RETRIES
    THEN [task EXCEPT !.state = "failed", !.runs = @ + 1, !.last_run = t]
    ELSE [task EXCEPT !.retries = @ + 1, !.runs = @ + 1, !.last_run = t,
                      !.eta = t + COUNTDOWN]

\* log_validation_task runs once: IDValidationLog.objects.create stores the
\* record, or raises and the task asks for a retry.
\* outcomes: TRUE where the table takes the record, FALSE where create raises.
RunTask(outcomes) ==
    /\ \E n \in 1 .. Len(audit.tasks), stored \in outcomes :
          LET task == audit.tasks[n] IN
          /\ task.state = "queued"
          /\ task.eta <= now
          /\ task.runs < MaxRuns
          /\ audit' =
                IF stored
                THEN [tasks |-> [audit.tasks EXCEPT ![n] =
                                    [task EXCEPT !.state = "stored", !.runs = @ + 1,
                                                 !.last_run = now]],
                      log |-> Append(audit.log, [task |-> n, record |-> task.record])]
                ELSE [tasks |-> [audit.tasks EXCEPT ![n] = retry(task, now)],
                      log |-> audit.log]
    /\ UNCHANGED <<request_path, now>>

\* The countdown of a retry elapses.
Countdown ==
    /\ pc = "idle"
    /\ \E n \in 1 .. Len(audit.tasks) :
          /\ audit.tasks[n].state = "queued"
          /\ audit.tasks[n].eta > now
          /\ now' = audit.tasks[n].eta
          /\ auth_cache' = unexpired(auth_cache, audit.tasks[n].eta)
          /\ throttle_cache' = unexpired(throttle_cache, audit.tasks[n].eta)
    /\ UNCHANGED <<pvars, audit, db, pc, header, user, queried, held, body, pending,
                   response, dispatches, count_vars, ticks, workers, quota_changes,
                   issuing>>

\* Requests with a valid code, and a table that may refuse every record.
AuditNext ==
    \/ CreateAPIKey({KEY_A}, {<<2, 2>>})
    \/ Receive({KEY_A})
    \/ Authenticate
    \/ CheckThrottles
    \/ PostValidateRequest({json_object(VALID_ID, FALSE)})
    \/ PostParse
    \/ LogValidationAsync({TRUE})
    \/ PostRespond
    \/ Finish
    \/ DeliverTask
    \/ RunTask(BOOLEAN)
    \/ Countdown

SpecAudit == Init /\ [][AuditNext]_vars

\* The records the table holds for task n.
StoredFor(n) == {i \in 1 .. Len(audit.log) : audit.log[i].task = n}

\* C36: an audit task stores one record, or, when the table keeps refusing,
\* is run again 30 s after each failure and given up after a bounded number
\* of attempts, at most 3 in total; it is never retried without end.
C36_AtMostThreeAttempts ==
    \A n \in 1 .. Len(audit.tasks) :
        LET task == audit.tasks[n] IN
        /\ task.runs <= 3
        /\ (task.state = "queued" /\ task.runs > 0) => task.eta = task.last_run + 30
        /\ task.state = "stored" => Cardinality(StoredFor(n)) = 1
        /\ task.state # "stored" => StoredFor(n) = {}

-----------------------------------------------------------------------------
(* The parser alone, on texts drawn around the codes of tests.py.          *)

BaseIds ==
    { VALID_ID,
      INVALID_CHECKSUM_ID,
      Ascii(<<2,9,0,0,2,3,0,2,1,0,0,0,1,8>>),       \* 30 February
      Ascii(<<2,9,0,0,1,0,1,9,9,0,0,0,1,8>>),       \* governorate 99
      Ascii(<<3,0,0,0,2,2,9,8,8,4,5,6,8,5>>),       \* 29 February 2000
      Ascii(<<2,9,0,1,3,3,2,2,1,0,0,0,1,8>>),       \* month 13, day 32
      Ascii(<<3,0,1,0,3,2,7,1,7,0,0,0,3,1>>),       \* weighted sum = 0 mod 11
      Ascii(<<3,0,1,0,3,2,7,1,7,0,0,0,9,0>>),       \* weighted sum = 1 mod 11
      <<SPACE>> \o VALID_ID \o <<SPACE>>,
      INVALID_LENGTH_ID,
      <<>> }

Todays == { SERVICE_DATE, <<2001, 3, 27>>, <<2001, 3, 26>> }

\* What a position holding character c may be replaced by.
Replacements(c) ==
    AsciiDigits
    \cup {LETTER_A, SPACE, SUPERSCRIPT_TWO}
    \cup (IF c \in AsciiDigits
          THEN {ARABIC_ZERO + (c - ASCII_ZERO), PERSIAN_ZERO + (c - ASCII_ZERO)}
          ELSE {})

\* A caller holds one of the texts, a mode and a clock.
ParserStart(texts, clock_dates) ==
    /\ national_id \in texts
    /\ strict_checksum \in BOOLEAN
    /\ today \in clock_dates
    /\ result = NotRun
    /\ edits = 0
    /\ ServiceIdle

ParserInit == ParserStart(BaseIds, Todays)

\* The caller types another character at one of the positions.
EditChar(positions) ==
    /\ result.kind = "none"
    /\ edits < MaxEdits
    /\ \E p \in (1 .. Len(national_id)) \cap positions :
         \E c \in Replacements(national_id[p]) \ {national_id[p]} :
            national_id' = [national_id EXCEPT ![p] = c]
    /\ edits' = edits + 1
    /\ UNCHANGED <<strict_checksum, today, result, svars>>

\* EgyptianIDValidator.validate_and_parse(national_id, strict_checksum)
ValidateAndParse ==
    /\ result.kind = "none"
    /\ result' = validate_and_parse(national_id, strict_checksum, today)
    /\ UNCHANGED <<national_id, strict_checksum, today, edits, svars>>

\* Any character of the text is edited.
ParserNext == EditChar(Nat) \/ ValidateAndParse

SpecParser == ParserInit /\ [][ParserNext]_vars

\* The century, date and governorate stages: texts that differ in those
\* fields, edited in those fields (national_id[0:9]).
StructureIds ==
    { VALID_ID,
      Ascii(<<2,9,0,0,2,3,0,2,1,0,0,0,1,8>>),       \* 30 February
      Ascii(<<2,9,0,0,4,3,1,2,1,0,0,0,1,8>>),       \* 31 April
      Ascii(<<3,0,0,0,2,2,9,8,8,4,5,6,8,5>>),       \* 29 February 2000
      Ascii(<<2,9,0,1,3,3,2,2,1,0,0,0,1,8>>),       \* month 13, day 32
      Ascii(<<2,9,0,0,1,0,1,9,9,0,0,0,1,8>>) }      \* governorate 99

StructureInit == ParserStart(StructureIds, Todays)

StructureNext == EditChar(1 .. 9) \/ ValidateAndParse

SpecStructure == StructureInit /\ [][StructureNext]_vars

\* The format stage: texts of several lengths and alphabets, under one clock.
FormatIds ==
    { VALID_ID,
      ARABIC_DIGITS_ID,
      <<SPACE>> \o VALID_ID \o <<SPACE>>,
      INVALID_LENGTH_ID,
      <<>> }

FormatInit == ParserStart(FormatIds, {SERVICE_DATE})

FormatNext == EditChar(Nat) \/ ValidateAndParse

SpecFormat == FormatInit /\ [][FormatNext]_vars

\* The checksum stage: codes whose check digit matches, with weighted sums
\* of several remainders, and any one character of them replaced.
ChecksumIds ==
    { VALID_ID,
      Ascii(<<3,0,1,0,3,2,7,1,7,0,0,0,3,1>>),       \* weighted sum = 0 mod 11
      Ascii(<<3,0,1,0,3,2,7,1,7,0,0,0,9,0>>) }      \* weighted sum = 1 mod 11

ChecksumInit == ParserStart(ChecksumIds, {SERVICE_DATE})

ChecksumNext == EditChar(1 .. 14) \/ ValidateAndParse

SpecChecksum == ChecksumInit /\ [][ChecksumNext]_vars

\* The date stage and the age: holders born on 27 March 2001 and on
\* 29 February 2000, read on days around their birthdays.
AgeIds ==
    { VALID_ID,
      Ascii(<<3,0,0,0,2,2,9,8,8,4,5,6,8,5>>) }      \* 29 February 2000

AgeDates ==
    { <<2000, 2, 29>>, <<2001, 2, 28>>, <<2001, 3, 1>>, <<2001, 3, 26>>,
      <<2001, 3, 27>>, <<2002, 3, 26>>, <<2002, 3, 27>>, <<2004, 2, 29>>,
      SERVICE_DATE }

AgeInit == ParserStart(AgeIds, AgeDates)

AgeNext == EditChar(2 .. 7) \/ ValidateAndParse

SpecAge == AgeInit /\ [][AgeNext]_vars

-----------------------------------------------------------------------------
(* The parser's contract.                                                  *)

\* The text the stages after trimming and normalization work on.
Normalized(text) == _normalize_digits(strip(text))

IsAsciiDigits(text) == \A i \in 1 .. Len(text) : text[i] \in AsciiDigits

\* C1: whenever validate_and_parse returns, valid holds exactly when the error
\* list is empty and exactly when parsed is not None; an invalid result has
\* parsed = None and at least one error.
C1_ResultShape ==
    result.kind = "return" =>
        /\ result.valid <=> result.errors = <<>>
        /\ result.valid <=> result.parsed # None
        /\ ~result.valid => result.parsed = None /\ Len(result.errors) >= 1

\* An invalid result with two errors, returned in strict mode.
C1_Witness ==
    /\ result.kind = "return"
    /\ strict_checksum
    /\ ~result.valid
    /\ Len(result.errors) = 2
    /\ result.parsed = None

\* C2: a trimmed 14-character text that, once U+0660..U+0669 are mapped to
\* ASCII, still holds a character outside '0'..'9' returns
\* [invalid_characters] and reaches no later stage; parsed.raw of every valid
\* result is 14 ASCII digits.
C2_OnlyAsciiDigitsPassFormat ==
    result.kind # "none" =>
        /\ (Len(strip(national_id)) = 14 /\ ~IsAsciiDigits(Normalized(national_id)))
              => result = Returns(FALSE, <<ERR_INVALID_CHARACTERS>>, None)
        /\ (result.kind = "return" /\ result.valid)
              => Len(result.parsed.raw) = 14 /\ IsAsciiDigits(result.parsed.raw)

\* digit[i] of a text of ASCII digits, i counted from 0.
Digit(text, i) == text[i + 1] - ASCII_ZERO

\* digit[13] = (11 - ((sum of digit[i] * w[i], i = 0..12) mod 11)) mod 10
ChecksumFormula(text) ==
    LET total == 2 * Digit(text, 0) + 7 * Digit(text, 1) + 6 * Digit(text, 2)
                 + 5 * Digit(text, 3) + 4 * Digit(text, 4) + 3 * Digit(text, 5)
                 + 2 * Digit(text, 6) + 7 * Digit(text, 7) + 6 * Digit(text, 8)
                 + 5 * Digit(text, 9) + 4 * Digit(text, 10) + 3 * Digit(text, 11)
                 + 2 * Digit(text, 12)
    IN  Digit(text, 13) = (11 - (total % 11)) % 10

\* C3: for a text of 14 digits _validate_checksum is true exactly when the
\* formula holds, in either mode and on any date, and a valid result reports
\* that outcome as parsed.checksum_ok.
C3_ChecksumFormula ==
    LET nid == Normalized(national_id) IN
    (Len(nid) = 14 /\ IsAsciiDigits(nid)) =>
        /\ _validate_checksum(nid) <=> ChecksumFormula(nid)
        /\ (result.kind = "return" /\ result.valid)
              => /\ result.parsed.raw = nid
                 /\ result.parsed.checksum_ok <=> ChecksumFormula(nid)

\* A valid result, for a text with one digit replaced, whose checksum fails.
C3_Witness ==
    /\ edits = 1
    /\ result.kind = "return"
    /\ result.valid
    /\ IsAsciiDigits(result.parsed.raw)
    /\ ~result.parsed.checksum_ok
    /\ ~ChecksumFormula(result.parsed.raw)

\* C12: for every text the request schema accepts as national_id (one that
\* is not blank) and either mode, validate_and_parse returns a result: it
\* never raises.
C12_NeverRaises ==
    (result.kind # "none" /\ strip(national_id) # <<>>) => result.kind = "return"

\* C13: the error list of a result names at most one error kind.
C13_OneErrorKind ==
    result.kind = "return" =>
        Cardinality({result.errors[i] : i \in 1 .. Len(result.errors)}) <= 1

\* C13 as the parser has it: a result carries at most one error, except that
\* in strict mode unknown_governorate is followed by invalid_checksum when
\* the checksum fails too.
C13_ErrorsPerResult ==
    result.kind = "return" =>
        \/ Len(result.errors) <= 1
        \/ /\ strict_checksum
           /\ result.errors = <<"unknown_governorate", "invalid_checksum">>

\* Governorate 99 and a failing checksum, in strict mode: two errors.
C13_Witness ==
    /\ result.kind = "return"
    /\ strict_checksum
    /\ edits = 0
    /\ Slice(national_id, 7, 9) = Code(9, 9)
    /\ result.errors = <<"unknown_governorate", "invalid_checksum">>

\* The text passes the format, century, date and governorate checks.
PassesStructure(text, clock_date) ==
    LET fmt == _validate_format(strip(text)) IN
    /\ fmt.ok
    /\ _validate_century(Slice(fmt.value, 0, 1))
    /\ _validate_date(Slice(fmt.value, 0, 1), Slice(fmt.value, 1, 3),
                      Slice(fmt.value, 3, 5), Slice(fmt.value, 5, 7), clock_date).ok
    /\ _validate_governorate(Slice(fmt.value, 7, 9)).errors = <<>>

\* The text passes the format, century and date checks.
PassesDate(text, clock_date) ==
    LET fmt == _validate_format(strip(text)) IN
    /\ fmt.ok
    /\ _validate_century(Slice(fmt.value, 0, 1))
    /\ _validate_date(Slice(fmt.value, 0, 1), Slice(fmt.value, 1, 3),
                      Slice(fmt.value, 3, 5), Slice(fmt.value, 5, 7), clock_date).ok

\* C14: a governorate code that is no key of GOVERNORATES makes the result
\* invalid with unknown_governorate and parsed = None, and the checksum is
\* still evaluated: in strict mode a failing checksum gives
\* [unknown_governorate, invalid_checksum]. unknown_governorate is reported
\* only for texts whose format, century and date are valid.
C14_UnknownGovernorate ==
    result.kind # "none" =>
        LET nid == Normalized(national_id)
            unknown == Slice(nid, 7, 9) \notin DOMAIN GOVERNORATES
            reported == \E i \in 1 .. Len(result.errors) :
                            result.errors[i] = "unknown_governorate"
        IN  /\ reported <=> (PassesDate(national_id, today) /\ unknown)
            /\ reported =>
                  result =
                    Returns(FALSE,
                            IF strict_checksum /\ ~_validate_checksum(nid)
                            THEN <<"unknown_governorate", "invalid_checksum">>
                            ELSE <<"unknown_governorate">>,
                            None)

\* One character of a governorate code replaced, in strict mode: the code is
\* unknown and the checksum fails too.
C14_Witness ==
    /\ result.kind = "return"
    /\ strict_checksum
    /\ edits = 1
    /\ Slice(Normalized(national_id), 7, 9) \notin DOMAIN GOVERNORATES
    /\ result = Returns(FALSE, <<"unknown_governorate", "invalid_checksum">>, None)

\* The field holds decimal digits only, and so writes a number.
IsNumber(field) == ~int_raises(field)

\* The number a field of decimal digits writes.
Number(field) == int(field)

\* C15: of century, month, day and calendar date the first stage that fails
\* is the only error reported: a century digit other than 2 or 3 gives
\* [unknown_century] whatever the other fields hold; otherwise a month
\* outside 1..12 gives [invalid_month] whatever the day field holds;
\* otherwise a day outside 1..31 gives [invalid_day]; otherwise a day the
\* month does not have gives [invalid_date].
C15_FirstFailingStage ==
    (result.kind # "none" /\ _validate_format(strip(national_id)).ok) =>
        LET nid == Normalized(national_id)
            century == nid[1] - ASCII_ZERO
            year_field == Slice(nid, 1, 3)
            month_field == Slice(nid, 3, 5)
            day_field == Slice(nid, 5, 7)
            year == (IF century = 2 THEN 1900 ELSE 2000) + Number(year_field)
            only(error) == result = Returns(FALSE, <<error>>, None)
        IN  IF century \notin {2, 3} THEN only("unknown_century")
            ELSE IF ~IsNumber(month_field) THEN TRUE
            ELSE IF Number(month_field) \notin 1 .. 12 THEN only("invalid_month")
            ELSE IF ~IsNumber(day_field) THEN TRUE
            ELSE IF Number(day_field) \notin 1 .. 31 THEN only("invalid_day")
            ELSE IF ~IsNumber(year_field) THEN TRUE
            ELSE IF Number(day_field) > DaysInMonth(year, Number(month_field))
                 THEN only("invalid_date")
                 ELSE TRUE

\* The text writes a real calendar date behind a century digit 2 or 3.
HasBirthDate(text) ==
    LET nid == Normalized(text) IN
    /\ _validate_format(strip(text)).ok
    /\ nid[1] - ASCII_ZERO \in {2, 3}
    /\ IsNumber(Slice(nid, 1, 7))
    /\ Number(Slice(nid, 3, 5)) \in 1 .. 12
    /\ Number(Slice(nid, 5, 7)) >= 1
    /\ Number(Slice(nid, 5, 7)) <=
           DaysInMonth((IF nid[1] - ASCII_ZERO = 2 THEN 1900 ELSE 2000)
                           + Number(Slice(nid, 1, 3)),
                       Number(Slice(nid, 3, 5)))

\* Base year 1900 for century digit 2, 2000 for 3, plus the two-digit year.
BirthDate(text) ==
    LET nid == Normalized(text) IN
    << (IF nid[1] - ASCII_ZERO = 2 THEN 1900 ELSE 2000) + Number(Slice(nid, 1, 3)),
       Number(Slice(nid, 3, 5)),
       Number(Slice(nid, 5, 7)) >>

\* Days since a fixed origin, on a calendar of 31-day months: order-preserving.
DayRank(d) == (d[1] * 12 + (d[2] - 1)) * 31 + (d[3] - 1)

DateStageErrors ==
    {"invalid_length", "invalid_characters", "unknown_century", "invalid_month",
     "invalid_day", "invalid_date", "future_date"}

\* C16: future_date is reported exactly when the text writes a real birth
\* date strictly after the current date, and is then the only error; a real
\* birth date on or before the current date, the current date included,
\* passes the date stage and is the birth date of the parsed data.
C16_FutureDate ==
    result.kind # "none" =>
        LET reported == \E i \in 1 .. Len(result.errors) :
                            result.errors[i] = "future_date"
            real == HasBirthDate(national_id)
            birth == BirthDate(national_id)
        IN  /\ reported <=> (real /\ DayRank(birth) > DayRank(today))
            /\ reported => result = Returns(FALSE, <<"future_date">>, None)
            /\ (real /\ DayRank(birth) <= DayRank(today)) =>
                  /\ \A i \in 1 .. Len(result.errors) :
                         result.errors[i] \notin DateStageErrors
                  /\ result.parsed # None =>
                         result.parsed.birth_date = isoformat(birth)

\* A birth date equal to the current date is accepted.
C16_Witness ==
    /\ result.kind = "return"
    /\ result.valid
    /\ HasBirthDate(national_id)
    /\ BirthDate(national_id) = today

\* C17: a text whose trimmed length is not 14, the empty text included, gets
\* (False, [invalid_length], None) whatever characters it holds.
C17_InvalidLength ==
    (result.kind # "none" /\ Len(Trimmed(national_id)) # 14) =>
        result = Returns(FALSE, <<"invalid_length">>, None)

\* A trimmed text of another length that holds a character that is no digit.
C17_Witness ==
    /\ result = Returns(FALSE, <<"invalid_length">>, None)
    /\ Len(Trimmed(national_id)) \notin {0, 14}
    /\ \E i \in 1 .. Len(Trimmed(national_id)) :
          Trimmed(national_id)[i] \notin IsDigitChars

\* The text with each Eastern Arabic-Indic digit replaced by its ASCII digit.
ToAscii(text) ==
    [i \in 1 .. Len(text) |->
        IF text[i] \in ArabicDigits
        THEN ASCII_ZERO + (text[i] - ARABIC_ZERO) ELSE text[i]]

\* C18: a text in which some of the digits are written as Eastern
\* Arabic-Indic digits gets the result of the text with those digits in
\* ASCII, and parsed.raw is that ASCII form, trimmed; normalizing twice is normalizing
\* once, and normalizing a text without Eastern Arabic-Indic digits changes
\* nothing.
C18_ArabicDigits ==
    result.kind # "none" =>
        /\ result = validate_and_parse(ToAscii(national_id), strict_checksum, today)
        /\ result.parsed # None =>
              /\ result.parsed.raw = Trimmed(ToAscii(national_id))
              /\ \A i \in 1 .. 14 : result.parsed.raw[i] \notin ArabicDigits
        /\ _normalize_digits(_normalize_digits(national_id))
              = _normalize_digits(national_id)
        /\ _normalize_digits(ToAscii(national_id)) = ToAscii(national_id)

\* VALID_ID with some digits Eastern Arabic-Indic and some ASCII is valid.
C18_Witness ==
    /\ result.kind = "return"
    /\ result.valid
    /\ result.parsed.raw = VALID_ID
    /\ \E i \in 1 .. 14 : national_id[i] \in ArabicDigits
    /\ \E i \in 1 .. 14 : national_id[i] \in AsciiDigits

\* C25: validate_and_parse('30103271701312', strict_checksum = False) returns
\* valid True, no errors, and parsed with raw '30103271701312', century_digit
\* '3', birth_date '2001-03-27', governorate_code '17', governorate_name
\* GOVERNORATES['17'], serial '0131', gender 'male' and checksum_ok True, on
\* every current date from 2001-03-27 on.
C25_ValidIdParsed ==
    (/\ result.kind # "none"
     /\ national_id = VALID_ID
     /\ ~strict_checksum
     /\ ~DateAfter(<<2001, 3, 27>>, today)) =>
        /\ result.kind = "return"
        /\ result.valid = TRUE
        /\ result.errors = <<>>
        /\ result.parsed.raw = Ascii(<<3,0,1,0,3,2,7,1,7,0,1,3,1,2>>)
        /\ result.parsed.century_digit = Ascii(<<3>>)
        /\ result.parsed.birth_date =
               Ascii(<<2,0,0,1>>) \o <<HYPHEN>> \o Ascii(<<0,3>>) \o <<HYPHEN>> \o Ascii(<<2,7>>)
        /\ result.parsed.governorate_code = Ascii(<<1,7>>)
        /\ result.parsed.governorate_name = GOVERNORATES[Ascii(<<1,7>>)]
        /\ result.parsed.serial = Ascii(<<0,1,3,1>>)
        /\ result.parsed.gender = "male"
        /\ result.parsed.checksum_ok = TRUE

\* The code parsed leniently on its holder's day of birth.
C25_Witness ==
    /\ result.kind = "return"
    /\ national_id = VALID_ID
    /\ ~strict_checksum
    /\ today = <<2001, 3, 27>>
    /\ result.parsed # None

\* The clock dates not before the current one.
LaterDates == {d \in AgeDates : ~DateAfter(today, d)}

\* C37: for every valid result parsed.age is the current year minus the birth
\* year, minus 1 when the current (month, day) precedes the birth (month, day),
\* and is never negative; on every later current date the same code is valid
\* too and its age is not smaller.
C37_AgeInFullYears ==
    (result.kind = "return" /\ result.valid) =>
        LET birth == BirthDate(national_id)
            before_birthday ==
                \/ today[2] < birth[2]
                \/ today[2] = birth[2] /\ today[3] < birth[3]
        IN  /\ result.parsed.age =
                   today[1] - birth[1] - (IF before_birthday THEN 1 ELSE 0)
            /\ result.parsed.age >= 0
            /\ \A d \in LaterDates :
                   LET later == validate_and_parse(national_id, strict_checksum, d) IN
                   /\ later.kind = "return"
                   /\ later.valid
                   /\ later.parsed.age >= result.parsed.age

\* A holder read on the eve of the first birthday, and again later.
C37_Witness ==
    /\ result.kind = "return"
    /\ result.valid
    /\ today[1] - BirthDate(national_id)[1] = 1
    /\ result.parsed.age = 0
    /\ \E d \in LaterDates :
          validate_and_parse(national_id, strict_checksum, d).parsed.age > 0

\* The two-digit year, the month and the day of a date written YYYY-MM-DD.
YYMMDD(iso) == <<iso[3], iso[4], iso[6], iso[7], iso[9], iso[10]>>

\* C38: for every valid result the parsed fields are the slices of the
\* normalized code at fixed offsets: century_digit is character 1, the birth
\* date is the base year plus characters 2-3 with month 4-5 and day 6-7,
\* governorate_code is characters 8-9, serial is characters 10-13, gender is
\* male exactly when character 13 is odd and female otherwise; century_digit,
\* the YYMMDD of birth_date, governorate_code, serial and the check digit put
\* together give parsed.raw.
C38_FieldsAreSlices ==
    (result.kind = "return" /\ result.valid) =>
        LET nid == Normalized(national_id)
            parsed == result.parsed
        IN  /\ parsed.century_digit = <<nid[1]>>
            /\ parsed.birth_date = isoformat(BirthDate(national_id))
            /\ parsed.governorate_code = <<nid[8], nid[9]>>
            /\ parsed.serial = <<nid[10], nid[11], nid[12], nid[13]>>
            /\ parsed.gender = (IF Number(<<nid[13]>>) % 2 = 1 THEN "male" ELSE "female")
            /\ parsed.century_digit \o YYMMDD(parsed.birth_date)
                   \o parsed.governorate_code \o parsed.serial \o <<nid[14]>>
                 = parsed.raw

\* The weighted sum of the first 13 digits, modulo 11.
Remainder(text) ==
    (2 * Digit(text, 0) + 7 * Digit(text, 1) + 6 * Digit(text, 2)
       + 5 * Digit(text, 3) + 4 * Digit(text, 4) + 3 * Digit(text, 5)
       + 2 * Digit(text, 6) + 7 * Digit(text, 7) + 6 * Digit(text, 8)
       + 5 * Digit(text, 9) + 4 * Digit(text, 10) + 3 * Digit(text, 11)
       + 2 * Digit(text, 12)) % 11

\* text is a code of 14 digits.
IsCode(text) == Len(text) = 14 /\ IsAsciiDigits(text)

\* changed is original with exactly one of its first 13 digits replaced by
\* another digit.
OneDigitChanged(original, changed) ==
    /\ IsCode(original)
    /\ IsCode(changed)
    /\ changed[14] = original[14]
    /\ Cardinality({i \in 1 .. 13 : changed[i] # original[i]}) = 1

\* The check digits that pass behind the first 13 digits of text.
PassingCheckDigits(text) ==
    {c \in AsciiDigits : _validate_checksum(SubSeq(text, 1, 13) \o <<c>>)}

\* C39 as stated: a code of 14 digits that passes _validate_checksum fails it
\* after exactly one of its first 13 digits is changed to another digit; and
\* behind every 13 digits exactly one check digit passes.
C39_EverySubstitutionDetected ==
    [][/\ (_validate_checksum(national_id) /\ OneDigitChanged(national_id, national_id'))
            => ~_validate_checksum(national_id')
       /\ IsCode(national_id') => Cardinality(PassingCheckDigits(national_id')) = 1]_vars

\* C39: changing exactly one of the first 13 digits of a code that passes
\* _validate_checksum changes the weighted sum modulo 11, and the changed code
\* passes exactly when the two remainders are 0 and 10, which both ask for
\* the check digit 1; behind every 13 digits exactly one check digit passes.
C39_SubstitutionChangesRemainder ==
    [][/\ (_validate_checksum(national_id) /\ OneDigitChanged(national_id, national_id'))
            => /\ Remainder(national_id') # Remainder(national_id)
               /\ _validate_checksum(national_id')
                     <=> {Remainder(national_id), Remainder(national_id')} = {0, 10}
       /\ IsCode(national_id') => Cardinality(PassingCheckDigits(national_id')) = 1]_vars

\* One serial digit of a passing code was changed, and the strict parser
\* reports the checksum.
C39_Witness ==
    /\ edits = 1
    /\ strict_checksum
    /\ \E base \in ChecksumIds :
          /\ _validate_checksum(base)
          /\ OneDigitChanged(base, national_id)
    /\ result.kind = "return"
    /\ result.errors = <<ERR_INVALID_CHECKSUM>>

\* C4: for a text that passes the format, century, date and governorate
\* checks, the lenient result is valid and reports the checksum outcome; the
\* strict result is valid exactly when the checksum matches and is
\* (False, [invalid_checksum], None) otherwise; on a match the two are equal.
C4_StrictAndLenient ==
    (result.kind # "none" /\ PassesStructure(national_id, today)) =>
        LET checksum_ok == _validate_checksum(Normalized(national_id))
            lenient == validate_and_parse(national_id, FALSE, today)
        IN  /\ result.kind = "return"
            /\ ~strict_checksum =>
                   /\ result.valid
                   /\ result.parsed.checksum_ok = checksum_ok
            /\ strict_checksum =>
                   /\ result.valid <=> checksum_ok
                   /\ ~checksum_ok =>
                          result = Returns(FALSE, <<ERR_INVALID_CHECKSUM>>, None)
                   /\ checksum_ok => result = lenient

====
